---------------------------- MODULE Spec2Model ----------------------------
(***************************************************************************)
(* A model of src/bot.py (the Cuttlefish image bot).                       *)
(*                                                                         *)
(*   - parse_command_args : the while loop, one step per iteration         *)
(*     (SpecParse), and the same step iterated as an operator              *)
(*     (parse_command_args) for the handlers that call it.                 *)
(*   - ImageBot.get_dimensions, ImageBot.generate_image,                   *)
(*     ImageBot.download_image_as_base64 : operators; SpecClient applies   *)
(*     generate_image to every input and every answer of the network.      *)
(*   - generate_image_direct, handle_photo_with_caption : one action per   *)
(*     await of the handler (Spec).                                        *)
(*                                                                         *)
(* Text (tokens, prompts, captions, model ids) is a sequence of            *)
(* one-character strings, so that lower(), int(), split(), strip(),        *)
(* " ".join() and the substring test are computed, not assumed.            *)
(* Python's None and a missing dict key are the empty sequence <<>>, a     *)
(* present value v is <<v>>.                                               *)
(***************************************************************************)
EXTENDS Integers, Sequences, FiniteSets, TLC

(***************************************************************************)
(* Bounds of the model.                                                    *)
(***************************************************************************)
\* longest token sequence given to the parser in SpecParse
MaxArgs == 3
\* most result objects in one response of the remote service in SpecClient
MaxItems == 2
\* longest token sequence of a command or caption in Spec
MaxWords == 3

(***************************************************************************)
(* Text helpers: str.lower, int(str), str.split, str.strip, " ".join.      *)
(***************************************************************************)
UpperLetters == <<"A","B","C","D","E","F","G","H","I","J","K","L","M",
                  "N","O","P","Q","R","S","T","U","V","W","X","Y","Z">>
LowerLetters == <<"a","b","c","d","e","f","g","h","i","j","k","l","m",
                  "n","o","p","q","r","s","t","u","v","w","x","y","z">>
DigitChars == <<"0","1","2","3","4","5","6","7","8","9">>

IndexIn(c, s) == IF \E k \in 1..Len(s) : s[k] = c
                 THEN CHOOSE k \in 1..Len(s) : s[k] = c
                 ELSE 0

LowerChar(c) == IF IndexIn(c, UpperLetters) > 0
                THEN LowerLetters[IndexIn(c, UpperLetters)]
                ELSE c

\* str.lower()
Lower(s) == [k \in 1..Len(s) |-> LowerChar(s[k])]

IsDigit(c) == IndexIn(c, DigitChars) > 0
DigitVal(c) == IndexIn(c, DigitChars) - 1
IsSpace(c) == c \in {" ", "\t", "\n"}

RECURSIVE DigitsValue(_, _)
\* the value of the digits of s (underscores skipped), acc the value so far
DigitsValue(s, acc) ==
    IF s = <<>> THEN acc
    ELSE IF Head(s) = "_" THEN DigitsValue(Tail(s), acc)
    ELSE DigitsValue(Tail(s), 10 * acc + DigitVal(Head(s)))

\* int(s): <<v>> for a decimal literal (optional sign, digits, single
\* underscores between digits), <<>> where Python raises ValueError.
\* Tokens come from str.split, so they hold no whitespace to strip.
ParseInt(s) ==
    LET signed == s # <<>> /\ Head(s) \in {"+", "-"}
        body == IF signed THEN Tail(s) ELSE s
        wellFormed ==
            /\ body # <<>>
            /\ \A k \in 1..Len(body) : IsDigit(body[k]) \/ body[k] = "_"
            /\ IsDigit(body[1]) /\ IsDigit(body[Len(body)])
            /\ \A k \in 1..(Len(body) - 1) : ~(body[k] = "_" /\ body[k + 1] = "_")
    IN IF ~wellFormed THEN <<>>
       ELSE IF signed /\ Head(s) = "-" THEN << 0 - DigitsValue(body, 0) >>
       ELSE << DigitsValue(body, 0) >>

RECURSIVE Join(_)
\* " ".join(tokens)
Join(toks) ==
    IF toks = <<>> THEN <<>>
    ELSE IF Len(toks) = 1 THEN toks[1]
    ELSE toks[1] \o <<" ">> \o Join(Tail(toks))

RECURSIVE SplitFrom(_, _, _)
\* str.split(): runs of non-whitespace; cur is the token being read
SplitFrom(s, cur, acc) ==
    IF s = <<>> THEN (IF cur = <<>> THEN acc ELSE Append(acc, cur))
    ELSE IF IsSpace(Head(s))
         THEN SplitFrom(Tail(s), <<>>, IF cur = <<>> THEN acc ELSE Append(acc, cur))
         ELSE SplitFrom(Tail(s), Append(cur, Head(s)), acc)

Split(s) == SplitFrom(s, <<>>, <<>>)

RECURSIVE LStrip(_)
LStrip(s) == IF s # <<>> /\ IsSpace(Head(s)) THEN LStrip(Tail(s)) ELSE s

RECURSIVE RStrip(_)
RStrip(s) == IF s # <<>> /\ IsSpace(s[Len(s)]) THEN RStrip(SubSeq(s, 1, Len(s) - 1)) ELSE s

\* str.strip()
Strip(s) == RStrip(LStrip(s))

\* sub in s, for strings
Contains(sub, s) ==
    \E k \in 1..(Len(s) - Len(sub) + 1) : SubSeq(s, k, k + Len(sub) - 1) = sub

(***************************************************************************)
(* The tokens the checks draw from.                                        *)
(***************************************************************************)
T_l == <<"-","l">>
T_landscape == <<"-","-","l","a","n","d","s","c","a","p","e">>
T_p == <<"-","p">>
T_portrait == <<"-","-","p","o","r","t","r","a","i","t">>
T_s == <<"-","s">>
T_square == <<"-","-","s","q","u","a","r","e">>
T_max == <<"-","m","a","x">>
T_ddmax == <<"-","-","m","a","x">>
T_n == <<"-","n">>
\* the same flags as a user may type them
T_Portrait == <<"-","-","P","o","r","t","r","a","i","t">>
T_S == <<"-","S">>
T_N == <<"-","N">>
\* numbers and words
T_0 == <<"0">>
T_3 == <<"3">>
T_15 == <<"1","5">>
T_neg2 == <<"-","2">>
T_fox == <<"f","o","x">>
T_a == <<"a">>

Tokens == {T_landscape, T_Portrait, T_S, T_max, T_n, T_N,
           T_0, T_3, T_15, T_neg2, T_fox}

\* the orientation values of the program
S_portrait == <<"p","o","r","t","r","a","i","t">>
S_landscape == <<"l","a","n","d","s","c","a","p","e">>
S_square == <<"s","q","u","a","r","e">>

SeqsUpTo(S, n) == UNION {[1..k -> S] : k \in 0..n}

(***************************************************************************)
(* parse_command_args (src/bot.py 167-210).                                *)
(* st = [prompt_args, i, orientation, num_images, use_max]; i is the       *)
(* 0-based index of the source, prompt_args[i] is prompt_args[st.i + 1].   *)
(***************************************************************************)
\* list.pop(i), 0-based
Pop(s, k) == SubSeq(s, 1, k) \o SubSeq(s, k + 2, Len(s))

\* ClampCount without the upper limit of line 198
ClampCount_NoUpperLimit(n) == IF n < 1 THEN 1 ELSE n

\* lines 196-199
ClampCount(n) == IF n < 1 THEN 1 ELSE IF n > 10 THEN 10 ELSE n

ParseStart(a) ==
    [prompt_args |-> a, i |-> 0, orientation |-> S_portrait,
     num_images |-> 1, use_max |-> FALSE]

\* lines 177-206: the branch of the if/elif chain taken for arg
BranchOf(st, arg) ==
    IF arg \in {T_landscape, T_l} THEN "landscape"
    ELSE IF arg \in {T_portrait, T_p} THEN "portrait"
    ELSE IF arg \in {T_square, T_s} THEN "square"
    ELSE IF arg \in {T_ddmax, T_max} THEN "max"
    ELSE IF arg = T_n /\ st.i + 1 < Len(st.prompt_args)
         THEN (IF ParseInt(st.prompt_args[st.i + 2]) # <<>> THEN "count" ELSE "except")
    ELSE "else"

\* the branch the iteration takes: line 176, arg = prompt_args[i].lower(),
\* then the chain
Branch(st) ==
    CHOOSE r \in {BranchOf(st, arg) : arg \in {Lower(st.prompt_args[st.i + 1])}} : TRUE

\* SetOrientation that records the flag and steps over it, leaving it in
\* the list
SetOrientation_KeepsFlag(st, o) ==
    [st EXCEPT !.orientation = o, !.i = @ + 1]

\* SetOrientation that keeps the first orientation given
SetOrientation_FirstWins(st, o) ==
    [st EXCEPT !.orientation = IF @ = S_portrait THEN o ELSE @,
               !.prompt_args = Pop(@, st.i)]

\* lines 178-179, 182-183, 186-187: o is the orientation the flag names
SetOrientation(st, o) ==
    [st EXCEPT !.orientation = o, !.prompt_args = Pop(@, st.i)]

\* lines 190-191
SetMax(st) ==
    [st EXCEPT !.use_max = TRUE, !.prompt_args = Pop(@, st.i)]

\* SetCount that pops -n and leaves the number in the list
SetCount_KeepsNumber(st, v) ==
    [st EXCEPT !.num_images = ClampCount(v),
               !.prompt_args = Pop(@, st.i)]

\* lines 195-201: v is int(prompt_args[i + 1])
SetCount(st, v) ==
    [st EXCEPT !.num_images = ClampCount(v),
               !.prompt_args = Pop(Pop(@, st.i), st.i)]

\* SkipInvalidCount that steps over the refused token as well
SkipInvalidCount_SkipsBoth(st) == [st EXCEPT !.i = @ + 2]

\* lines 203-205: int() raised ValueError, caught
SkipInvalidCount(st) == [st EXCEPT !.i = @ + 1]

\* lines 206-207
SkipToken(st) == [st EXCEPT !.i = @ + 1]

\* the body of branch b
StepOf(st, b) ==
    CASE b = "landscape" -> SetOrientation(st, S_landscape)
      [] b = "portrait" -> SetOrientation(st, S_portrait)
      [] b = "square" -> SetOrientation(st, S_square)
      [] b = "max" -> SetMax(st)
      [] b = "count" -> SetCount(st, ParseInt(st.prompt_args[st.i + 2])[1])
      [] b = "except" -> SkipInvalidCount(st)
      [] OTHER -> SkipToken(st)

\* one iteration of the while loop
ParseStep(st) ==
    CHOOSE r \in {StepOf(st, b) : b \in {Branch(st)}} : TRUE

RECURSIVE ParseLoop(_)
\* lines 175-207: the loop, from the state st on (s is st's value: every
\* iteration starts from the values the one before it left)
ParseLoop(st) ==
    CHOOSE r \in {IF s.i < Len(s.prompt_args) THEN ParseLoop(ParseStep(s)) ELSE s :
                    s \in {st}} : TRUE

\* the whole function: (orientation, num_images, use_max, prompt)
parse_command_args(a) ==
    CHOOSE r \in {[orientation |-> st.orientation, num_images |-> st.num_images,
                    use_max |-> st.use_max, prompt |-> Join(st.prompt_args)] :
                      st \in {ParseLoop(ParseStart(a))}} : TRUE


(***************************************************************************)
(* base64.b64encode / base64.b64decode over byte strings (sequences of     *)
(* 0..255).                                                                *)
(***************************************************************************)
B64Alphabet == UpperLetters \o LowerLetters \o DigitChars \o <<"+", "/">>

B64Char(v) == B64Alphabet[v + 1]
B64Val(c) == IndexIn(c, B64Alphabet) - 1

RECURSIVE B64Encode(_)
B64Encode(b) ==
    IF b = <<>> THEN <<>>
    ELSE IF Len(b) = 1 THEN
        <<B64Char(b[1] \div 4), B64Char((b[1] % 4) * 16), "=", "=">>
    ELSE IF Len(b) = 2 THEN
        <<B64Char(b[1] \div 4),
          B64Char((b[1] % 4) * 16 + b[2] \div 16),
          B64Char((b[2] % 16) * 4), "=">>
    ELSE
        <<B64Char(b[1] \div 4),
          B64Char((b[1] % 4) * 16 + b[2] \div 16),
          B64Char((b[2] % 16) * 4 + b[3] \div 64),
          B64Char(b[3] % 64)>> \o B64Encode(SubSeq(b, 4, Len(b)))

RECURSIVE B64Decode(_)
\* of a string b64encode produced
B64Decode(s) ==
    IF Len(s) < 4 THEN <<>>
    ELSE LET v1 == B64Val(s[1])
             v2 == B64Val(s[2])
             v3 == B64Val(s[3])
             v4 == B64Val(s[4])
             b1 == v1 * 4 + v2 \div 16
             b2 == (v2 % 16) * 16 + v3 \div 4
             b3 == (v3 % 4) * 64 + v4
         IN IF s[3] = "=" THEN <<b1>>
            ELSE IF s[4] = "=" THEN <<b1, b2>>
            ELSE <<b1, b2, b3>> \o B64Decode(SubSeq(s, 5, Len(s)))

(***************************************************************************)
(* The model registry (src/bot.py 21-27).                                  *)
(***************************************************************************)
Id_flux == <<"r","u","n","w","a","r","e",":","1","0","1","@","1">>
Id_hidream == <<"r","u","n","w","a","r","e",":","9","7","@","2">>
Id_kontext == <<"b","f","l",":","3","@","1">>
Id_kontext_max == <<"b","f","l",":","4","@","1">>
Id_fast == <<"r","u","n","w","a","r","e",":","1","0","0","@","1">>

MODELS ==
    ("flux" :> [id |-> Id_flux, name |-> "FLUX Dev", supports_reference |-> FALSE])
    @@ ("hidream" :> [id |-> Id_hidream, name |-> "HiDream Pro", supports_reference |-> FALSE])
    @@ ("kontext" :> [id |-> Id_kontext, name |-> "Kontext Pro", supports_reference |-> TRUE])
    @@ ("kontext-max" :> [id |-> Id_kontext_max, name |-> "Kontext Max", supports_reference |-> TRUE])
    @@ ("fast" :> [id |-> Id_fast, name |-> "FLUX Schnell", supports_reference |-> FALSE])

ModelKeys == DOMAIN MODELS
ModelIds == {MODELS[k].id : k \in ModelKeys}

\* the registry entry of a model id
ModelOfId(model_id) == MODELS[CHOOSE k \in ModelKeys : MODELS[k].id = model_id]

(***************************************************************************)
(* ImageBot.get_dimensions (src/bot.py 34-47).                             *)
(***************************************************************************)
S_bfl == <<"b","f","l">>

\* get_dimensions that gives every model the pair of the other families
get_dimensions_OnePair(model_id, o) ==
    LET lo == Lower(o)
    IN IF lo = S_square THEN <<1024, 1024>>
       ELSE IF lo = S_landscape THEN <<1344, 704>> ELSE <<704, 1344>>

get_dimensions(model_id, o) ==
    LET lo == Lower(o)
    IN IF lo = S_square THEN <<1024, 1024>>
       ELSE IF Contains(S_bfl, model_id) THEN
           (IF lo = S_landscape THEN <<1392, 752>> ELSE <<752, 1392>>)
       ELSE
           (IF lo = S_landscape THEN <<1344, 704>> ELSE <<704, 1344>>)

(***************************************************************************)
(* ImageBot.generate_image (src/bot.py 49-127) and                         *)
(* ImageBot.download_image_as_base64 (129-142).                            *)
(*                                                                         *)
(* A JSON object is a record (its keys are its DOMAIN), a JSON array a     *)
(* sequence. The network's part in one call is net:                        *)
(*   net.post = [raises, status, kind, list, obj]: the POST raises, or     *)
(*     answers status with a body that is a JSON array (kind "list"), a    *)
(*     JSON object (kind "dict") or nothing json() can decode to either    *)
(*     (kind "invalid": json() or the checks on it raise);                 *)
(*   net.get  = [raises, status, content]: what a GET of the asset does.   *)
(***************************************************************************)
\* dict.get(k): <<v>>, or <<>> for None
Get(d, k) == IF k \in DOMAIN d THEN <<d[k]>> ELSE <<>>

\* truth of an Optional[str]
Truthy(opt) == opt # <<>> /\ opt[1] # <<>>

\* lines 56-76
BasePayload(api_key, p, model_id, o, task_uuid) ==
    LET dims == get_dimensions(model_id, o)
    IN
    <<[taskType |-> "authentication", apiKey |-> api_key],
      [taskType |-> "imageInference",
       taskUUID |-> task_uuid,
       positivePrompt |-> p,
       width |-> dims[1],
       height |-> dims[2],
       model |-> model_id,
       outputFormat |-> "JPEG",
       includeCost |-> TRUE,
       outputType |-> <<"URL">>,
       numberResults |-> 1]>>

\* AttachesReference without the test of the model
AttachesReference_AnyModel(reference_image_base64, model_id) ==
    Truthy(reference_image_base64)

\* line 79
AttachesReference(reference_image_base64, model_id) ==
    Truthy(reference_image_base64) /\ Contains(S_bfl, model_id)

\* lines 59-80
BuildPayload(api_key, p, model_id, o, reference_image_base64, task_uuid) ==
    LET base == BasePayload(api_key, p, model_id, o, task_uuid)
    IN IF AttachesReference(reference_image_base64, model_id)
       THEN <<base[1],
              [referenceImages |-> <<reference_image_base64[1]>>] @@ base[2]>>
       ELSE base

\* lines 99-107: the response reports an error
ReportsError(body) ==
    IF body.kind = "list"
    THEN \E k \in 1..Len(body.list) : "error" \in DOMAIN body.list[k]
    ELSE "error" \in DOMAIN body.obj

\* line 110
ItemsToCheck(body) ==
    IF body.kind = "list" THEN body.list
    ELSE IF "data" \in DOMAIN body.obj THEN body.obj.data
    ELSE <<>>

\* Matches without the comparison of the token (line 114)
Matches_AnyToken(item, task_uuid) ==
    /\ Get(item, "taskType") = <<"imageInference">>
    /\ "imageURL" \in DOMAIN item
    /\ item.imageURL # ""

\* lines 113-117: the item is the result of this call, with a usable URL
Matches(item, task_uuid) ==
    /\ Get(item, "taskType") = <<"imageInference">>
    /\ Get(item, "taskUUID") = <<task_uuid>>
    /\ "imageURL" \in DOMAIN item
    /\ item.imageURL # ""

\* lines 112-119: the URL of the first matching item, <<>> when there is none
FirstMatch(items, task_uuid) ==
    LET at == {k \in 1..Len(items) : Matches(items[k], task_uuid)}
    IN IF at = {} THEN <<>>
       ELSE <<items[CHOOSE k \in at : \A m \in at : k <= m].imageURL>>

\* lines 129-142: <<base64>> or <<>> (None)
download_image_as_base64(get) ==
    IF get.raises THEN <<>>
    ELSE IF get.status = 200 THEN <<B64Encode(get.content)>>
    ELSE <<>>

\* lines 83-127: what the call does once BuildPayload's payload is posted
\* with the token task_uuid in it:
\*   fetched : the asset URLs it asked download_image_as_base64 for
\*   ret     : the value returned, <<base64>> or <<>> (None)
generate_image(task_uuid, net) ==
    LET none == [fetched |-> <<>>, ret |-> <<>>]
    IN IF net.post.raises THEN none
       ELSE IF net.post.status # 200 THEN none
       ELSE IF net.post.kind = "invalid" THEN none
       ELSE IF ReportsError(net.post) THEN none
       ELSE LET url == FirstMatch(ItemsToCheck(net.post), task_uuid)
            IN IF url = <<>> THEN none
               ELSE [fetched |-> url, ret |-> download_image_as_base64(net.get)]

(***************************************************************************)
(* What the remote service and the asset host may answer.                  *)
(***************************************************************************)
AssetUrl == "https://im.runware.ai/image/1.jpg"
\* the bytes of a (very small) image
ImageBytes == <<255, 216, 255, 224, 7>>

\* the result objects a response may hold for a call that issued token u;
\* other is a token the call did not issue
ResultItems(u, other) ==
    LET good == [taskType |-> "imageInference", taskUUID |-> u, imageURL |-> AssetUrl]
    IN {good,
        [good EXCEPT !.taskUUID = other],
        [good EXCEPT !.imageURL = ""],
        [good EXCEPT !.taskType = "imageUpload"],
        [taskType |-> "imageInference", taskUUID |-> u],
        [error |-> "invalid model"] @@ good,
        [error |-> "invalid model"]}

ListBody(l) == [raises |-> FALSE, status |-> 200, kind |-> "list", list |-> l, obj |-> <<>>]
DictBody(d) == [raises |-> FALSE, status |-> 200, kind |-> "dict", list |-> <<>>, obj |-> d]

\* the answers to the POST, with at most n result objects
PostAnswers(u, other, n) ==
    LET lists == SeqsUpTo(ResultItems(u, other), n)
    IN {[raises |-> TRUE, status |-> 0, kind |-> "invalid", list |-> <<>>, obj |-> <<>>],
        [raises |-> FALSE, status |-> 500, kind |-> "invalid", list |-> <<>>, obj |-> <<>>],
        [raises |-> FALSE, status |-> 200, kind |-> "invalid", list |-> <<>>, obj |-> <<>>]}
       \cup {ListBody(l) : l \in lists}
       \cup {DictBody([data |-> l]) : l \in lists}
       \cup {DictBody([data |-> l, error |-> "unauthorized"]) :
                l \in SeqsUpTo(ResultItems(u, other), 1)}
       \cup {DictBody([error |-> "unauthorized"]), DictBody([message |-> "ok"])}

GetAnswers ==
    {[raises |-> TRUE, status |-> 0, content |-> <<>>],
     [raises |-> FALSE, status |-> 404, content |-> <<>>],
     [raises |-> FALSE, status |-> 200, content |-> <<>>],
     [raises |-> FALSE, status |-> 200, content |-> ImageBytes]}

(***************************************************************************)
(* State.                                                                  *)
(***************************************************************************)
VARIABLES
    \* parse_command_args, while it runs (SpecParse)
    args,          \* the argument list given
    prompt_args,   \* args.copy(), popped in place
    i,             \* the loop index (0-based)
    orientation,
    num_images,
    use_max,
    prompt,        \* the joined prompt, once the loop is over
    ppc,           \* "idle" | "loop" | "done"
    \* one call of generate_image (SpecClient)
    call,          \* its arguments and the token uuid4() gave it
    net,           \* what the network did during the call
    out,           \* what the call did: payload, fetched, ret
    cpc,           \* "idle" | "call" | "returned"
    \* the handlers (Spec): one record per user interaction
    h

pvars == <<args, prompt_args, i, orientation, num_images, use_max, prompt, ppc>>
cvars == <<call, net, out, cpc>>

vars == <<pvars, cvars, h>>

\* the loop's variables as the record ParseStep works on
ParseState ==
    [prompt_args |-> prompt_args, i |-> i, orientation |-> orientation,
     num_images |-> num_images, use_max |-> use_max]

ParseIdle ==
    /\ args = <<>> /\ prompt_args = <<>> /\ i = 0
    /\ orientation = S_portrait /\ num_images = 1 /\ use_max = FALSE
    /\ prompt = <<>> /\ ppc = "idle"

NoCall ==
    [prompt |-> <<>>, model_id |-> <<>>, orientation |-> <<>>,
     reference_image_base64 |-> <<>>, task_uuid |-> ""]
NoNet ==
    [post |-> [raises |-> TRUE, status |-> 0, kind |-> "invalid", list |-> <<>>, obj |-> <<>>],
     get |-> [raises |-> TRUE, status |-> 0, content |-> <<>>]]
NoOut == [payload |-> <<>>, fetched |-> <<>>, ret |-> <<>>]

ClientIdle ==
    /\ call = NoCall /\ net = NoNet /\ out = NoOut /\ cpc = "idle"

(***************************************************************************)
(* SpecParse: parse_command_args on every token sequence of at most        *)
(* MaxArgs tokens, one action per branch of the loop body.                 *)
(***************************************************************************)
ArgSeqs == SeqsUpTo(Tokens, MaxArgs)

\* lines 169-174
InitParse ==
    /\ args \in ArgSeqs
    /\ prompt_args = args
    /\ i = 0
    /\ orientation = S_portrait
    /\ num_images = 1
    /\ use_max = FALSE
    /\ prompt = <<>>
    /\ ppc = "loop"
    /\ ClientIdle
    /\ h = <<>>

\* the loop's variables after the iteration
Assign(st) ==
    /\ prompt_args' = st.prompt_args
    /\ i' = st.i
    /\ orientation' = st.orientation
    /\ num_images' = st.num_images
    /\ use_max' = st.use_max

\* lines 177-188: an orientation flag is recorded and popped
ScanOrientation ==
    /\ ppc = "loop"
    /\ i < Len(prompt_args)
    /\ Branch(ParseState) \in {"landscape", "portrait", "square"}
    /\ Assign(ParseStep(ParseState))
    /\ UNCHANGED <<args, prompt, ppc>>
    /\ UNCHANGED <<cvars, h>>

\* lines 189-192: --max / -max
ScanMax ==
    /\ ppc = "loop"
    /\ i < Len(prompt_args)
    /\ Branch(ParseState) = "max"
    /\ Assign(ParseStep(ParseState))
    /\ UNCHANGED <<args, prompt, ppc>>
    /\ UNCHANGED <<cvars, h>>

\* lines 193-202: -n and an integer
ScanCount ==
    /\ ppc = "loop"
    /\ i < Len(prompt_args)
    /\ Branch(ParseState) = "count"
    /\ Assign(ParseStep(ParseState))
    /\ UNCHANGED <<args, prompt, ppc>>
    /\ UNCHANGED <<cvars, h>>

\* lines 193-195, 203-205: -n and a token int() refuses
ScanCountInvalid ==
    /\ ppc = "loop"
    /\ i < Len(prompt_args)
    /\ Branch(ParseState) = "except"
    /\ Assign(ParseStep(ParseState))
    /\ UNCHANGED <<args, prompt, ppc>>
    /\ UNCHANGED <<cvars, h>>

\* lines 206-207: any other token, and -n as the last token
ScanOther ==
    /\ ppc = "loop"
    /\ i < Len(prompt_args)
    /\ Branch(ParseState) = "else"
    /\ Assign(ParseStep(ParseState))
    /\ UNCHANGED <<args, prompt, ppc>>
    /\ UNCHANGED <<cvars, h>>

\* lines 175 (loop exit), 209-210
ParseReturn ==
    /\ ppc = "loop"
    /\ ~(i < Len(prompt_args))
    /\ prompt' = Join(prompt_args)
    /\ ppc' = "done"
    /\ UNCHANGED <<args, prompt_args, i, orientation, num_images, use_max>>
    /\ UNCHANGED <<cvars, h>>

NextParse ==
    \/ ScanOrientation
    \/ ScanMax
    \/ ScanCount
    \/ ScanCountInvalid
    \/ ScanOther
    \/ ParseReturn

SpecParse == InitParse /\ [][NextParse]_vars

(***************************************************************************)
(* SpecClient: ImageBot.generate_image on every model of the registry,     *)
(* every orientation, with and without a reference image, against every    *)
(* answer of the network with at most MaxItems result objects.             *)
(***************************************************************************)
\* RUNWARE_API_KEY (line 31)
ApiKey == "secret-key"
\* a reference image as upload_telegram_image returns it
ReferenceB64 == B64Encode(<<137, 80, 78, 71>>)
\* the token uuid4() gives the call, and a token it did not give it
ClientUuid == "5f0c1a52"
OtherUuid == "0b7e44d9"

InitClient ==
    /\ ParseIdle
    /\ call \in [prompt : {T_fox},
                 model_id : ModelIds,
                 orientation : {S_portrait, S_landscape, S_square},
                 reference_image_base64 : {<<>>, <<ReferenceB64>>},
                 task_uuid : {ClientUuid}]
    /\ net = NoNet
    /\ out = NoOut
    /\ cpc = "call"
    /\ h = <<>>

\* lines 49-127: the call runs against one behaviour of the network (the
\* asset host has a part in it only when the call asks it for an asset)
Generate ==
    /\ cpc = "call"
    /\ \E post \in PostAnswers(call.task_uuid, OtherUuid, MaxItems) :
       \E get \in GetAnswers :
          LET n == [post |-> post, get |-> get]
              o == generate_image(call.task_uuid, n)
          IN /\ (o.fetched = <<>> => get = NoNet.get)
             /\ net' = n
             /\ out' = [payload |-> BuildPayload(ApiKey, call.prompt, call.model_id,
                                       call.orientation, call.reference_image_base64,
                                       call.task_uuid),
                        fetched |-> o.fetched,
                        ret |-> o.ret]
    /\ cpc' = "returned"
    /\ UNCHANGED call
    /\ UNCHANGED <<pvars, h>>

NextClient == Generate

SpecClient == InitClient /\ [][NextClient]_vars

(***************************************************************************)
(* Spec: the two handlers, generate_image_direct (src/bot.py 260-318) and  *)
(* handle_photo_with_caption (320-392), one action per await.              *)
(*                                                                         *)
(* h[id] is one user interaction:                                          *)
(*   req      the update: kind "direct" (model_key, args = context.args)   *)
(*            or "photo" (has_photo, caption = <<text>> or <<>> for None)  *)
(*   pc       "start" | "upload" | "loop" | "generating" | "result" | "done" *)
(*   orientation, num_images, use_max, prompt, model_key, i : the locals   *)
(*   progress the generating/processing message: "none", "generating",     *)
(*            "processing", "editing", a failure notice ("failed",         *)
(*            "ref_failed", "error") or "deleted"                          *)
(*   sent     the replies sent, in order (texts and photos)                *)
(*   calls    the calls of generate_image made, in order                   *)
(*   image_base64, reference_image_base64 : the locals of the same name    *)
(*                                                                         *)
(* The chat transport's calls (reply_text, reply_photo, edit_text, delete) *)
(* return in Spec; SpecFaults adds the runs where one of them raises       *)
(* inside the try block and the except clause (316-318, 390-392) answers.  *)
(***************************************************************************)
\* the tokens of commands and captions: every sequence of at most MaxWords
\* of Words, and some longer or rarer command lines
Words == {T_S, T_max, T_n, T_3, T_fox}
T_2 == <<"2">>
T_red == <<"r","e","d">>
CommandLines ==
    {<<T_n, T_0, T_fox>>,
     <<T_n, T_15, T_fox>>,
     <<T_N, T_neg2, T_fox>>,
     <<T_n, T_2, T_l, T_a, T_red, T_fox>>,
     <<T_landscape, T_Portrait, T_fox>>,
     <<T_l, T_s>>,
     <<T_fox, T_ddmax, T_n, T_2, T_p>>}
WordSeqs == SeqsUpTo(Words, MaxWords) \cup CommandLines

\* a caption as a user types it: the tokens, single-spaced
Captions ==
    {<<Join(a)>> : a \in WordSeqs}
    \cup {<<>>, <<<<" ", " ">>>>, <<<<" ">> \o T_S \o <<" ", " ">> \o T_fox \o <<" ">>>>}

DirectKeys == {"flux", "hidream", "kontext", "fast"}

Requests ==
    {[kind |-> "direct", model_key |-> k, args |-> a, has_photo |-> FALSE, caption |-> <<>>] :
        k \in DirectKeys, a \in WordSeqs}
    \cup
    {[kind |-> "photo", model_key |-> "", args |-> <<>>, has_photo |-> TRUE, caption |-> c] :
        c \in Captions}

NewInteraction(req) ==
    [req |-> req, pc |-> "start",
     orientation |-> S_portrait, num_images |-> 1, use_max |-> FALSE,
     prompt |-> <<>>, model_key |-> "", i |-> 0,
     progress |-> "none", sent |-> <<>>, calls |-> <<>>,
     image_base64 |-> <<>>, reference_image_base64 |-> <<>>]

\* lines 287, 345
OrientationText(o) ==
    IF o = S_landscape THEN "Landscape"
    ELSE IF o = S_portrait THEN "Portrait"
    ELSE "Square"

\* lines 288, 346
NumText(n) == IF n > 1 THEN <<n, "images">> ELSE <<1, "image">>

\* the token uuid4() gives the n-th call of interaction id
TaskUuid(id, n) == <<id, n>>
\* a token no call of the program was given
ForeignUuid == <<0, 0>>

\* LoopCall that takes the high-tier model whenever the parser set use_max
LoopCall_MaxWhenFlagged(x, id) ==
    [prompt |-> x.prompt,
     model_id |-> IF x.use_max THEN Id_kontext_max ELSE MODELS[x.model_key].id,
     orientation |-> x.orientation,
     reference_image_base64 |-> x.reference_image_base64,
     task_uuid |-> TaskUuid(id, Len(x.calls) + 1)]

\* lines 297, 370: the call of generate_image the loop makes
LoopCall(x, id) ==
    [prompt |-> x.prompt,
     model_id |-> MODELS[x.model_key].id,
     orientation |-> x.orientation,
     reference_image_base64 |-> x.reference_image_base64,
     task_uuid |-> TaskUuid(id, Len(x.calls) + 1)]

\* a token the calls of interaction id did not issue: that of the latest
\* call of another interaction under way, when there is one
OtherToken(id) ==
    IF \E j \in DOMAIN h : j # id /\ h[j].calls # <<>>
    THEN LET j == CHOOSE j \in DOMAIN h : j # id /\ h[j].calls # <<>>
         IN h[j].calls[Len(h[j].calls)].call.task_uuid
    ELSE ForeignUuid

\* what the network may do during a call of a handler: an answer to the
\* POST with at most one result object (with the call's token u or with
\* the token other) and, when the call fetches the asset, an answer to the
\* GET
HandlerNets(u, other) ==
    LET posts == PostAnswers(u, other, 1)
        quiet == [raises |-> TRUE, status |-> 0, content |-> <<>>]
    IN {[post |-> q, get |-> quiet] :
           q \in {q \in posts : generate_image(u, [post |-> q, get |-> quiet]).fetched = <<>>}}
       \cup
       {[post |-> q, get |-> g] :
           q \in {q \in posts : generate_image(u, [post |-> q, get |-> quiet]).fetched # <<>>},
           g \in GetAnswers}

\* PhotoCaption with the loop's 0-based index in "Image i of N"
PhotoCaption_ZeroBased(x, verb) ==
    [verb |-> verb,
     model_name |-> MODELS[x.model_key].name,
     orientation_text |-> OrientationText(x.orientation),
     prompt |-> x.prompt,
     index |-> IF x.num_images > 1 THEN <<x.i, x.num_images>> ELSE <<>>]

\* lines 302-304, 375-377: the caption of the photo delivered
PhotoCaption(x, verb) ==
    [verb |-> verb,
     model_name |-> MODELS[x.model_key].name,
     orientation_text |-> OrientationText(x.orientation),
     prompt |-> x.prompt,
     index |-> IF x.num_images > 1 THEN <<x.i + 1, x.num_images>> ELSE <<>>]

Text(t) == [type |-> "text", text |-> t, photo |-> <<>>, caption |-> <<>>]
Photo(bytes, cap) == [type |-> "photo", text |-> "", photo |-> bytes, caption |-> <<cap>>]

\* lines 144-162: <<base64>> or <<>> (None); tg is what the chat platform does
upload_telegram_image(tg) ==
    IF tg.get_file_raises THEN <<>>
    ELSE IF tg.get.raises THEN <<>>
    ELSE IF tg.get.status = 200 THEN <<B64Encode(tg.get.content)>>
    ELSE <<>>

TelegramFiles ==
    [get_file_raises : BOOLEAN,
     get : {[raises |-> TRUE, status |-> 0, content |-> <<>>],
            [raises |-> FALSE, status |-> 404, content |-> <<>>],
            [raises |-> FALSE, status |-> 200, content |-> <<>>],
            [raises |-> FALSE, status |-> 200, content |-> <<137, 80, 78, 71>>]}]

------------------------------------------------------------------------------
\* generate_image_direct

\* lines 262-271: no arguments at all
D_NoArgs(id) ==
    /\ h[id].pc = "start"
    /\ h[id].req.kind = "direct"
    /\ h[id].req.args = <<>>
    /\ h' = [h EXCEPT ![id] = [@ EXCEPT !.sent = Append(@, Text("usage")),
                                        !.model_key = h[id].req.model_key,
                                        !.pc = "done"]]
    /\ UNCHANGED <<pvars, cvars>>

\* lines 274-282: only flags
D_EmptyPrompt(id) ==
    /\ h[id].pc = "start"
    /\ h[id].req.kind = "direct"
    /\ h[id].req.args # <<>>
    /\ \E r \in {parse_command_args(h[id].req.args)} :
          /\ r.prompt = <<>>
          /\ h' = [h EXCEPT ![id] = [@ EXCEPT !.orientation = r.orientation,
                                              !.num_images = r.num_images,
                                              !.use_max = r.use_max,
                                              !.prompt = r.prompt,
                                              !.model_key = h[id].req.model_key,
                                              !.sent = Append(@, Text("usage after options")),
                                              !.pc = "done"]]
    /\ UNCHANGED <<pvars, cvars>>

\* D_Announce without the test of the prompt (line 276)
D_Announce_NoPromptTest(id) ==
    /\ h[id].pc = "start"
    /\ h[id].req.kind = "direct"
    /\ h[id].req.args # <<>>
    /\ \E r \in {parse_command_args(h[id].req.args)} :
          h' = [h EXCEPT ![id] = [@ EXCEPT !.orientation = r.orientation,
                                           !.num_images = r.num_images,
                                           !.use_max = r.use_max,
                                           !.prompt = r.prompt,
                                           !.model_key = h[id].req.model_key,
                                           !.progress = "generating",
                                           !.i = 0,
                                           !.pc = "loop"]]
    /\ UNCHANGED <<pvars, cvars>>

\* lines 274-292: the request is accepted, the progress message is sent
D_Announce(id) ==
    /\ h[id].pc = "start"
    /\ h[id].req.kind = "direct"
    /\ h[id].req.args # <<>>
    /\ \E r \in {parse_command_args(h[id].req.args)} :
          /\ r.prompt # <<>>
          /\ h' = [h EXCEPT ![id] = [@ EXCEPT !.orientation = r.orientation,
                                              !.num_images = r.num_images,
                                              !.use_max = r.use_max,
                                              !.prompt = r.prompt,
                                              !.model_key = h[id].req.model_key,
                                              !.progress = "generating",
                                              !.i = 0,
                                              !.pc = "loop"]]
    /\ UNCHANGED <<pvars, cvars>>

\* D_GenStart that does not wait for the call before it (the calls of the
\* loop started together)
D_GenStart_NoWait(id) ==
    /\ h[id].pc \in {"loop", "generating"}
    /\ h[id].req.kind = "direct"
    /\ Len(h[id].calls) < h[id].num_images
    /\ LET c == [LoopCall(h[id], id) EXCEPT !.reference_image_base64 = <<>>]
       IN h' = [h EXCEPT ![id] =
                  [@ EXCEPT !.calls = Append(@,
                                [call |-> c,
                                 payload |-> BuildPayload(ApiKey, c.prompt, c.model_id,
                                                c.orientation, c.reference_image_base64,
                                                c.task_uuid)]),
                            !.pc = "generating"]]
    /\ UNCHANGED <<pvars, cvars>>

\* lines 296-297: the next iteration calls generate_image
D_GenStart(id) ==
    /\ h[id].pc = "loop"
    /\ h[id].req.kind = "direct"
    /\ h[id].i < h[id].num_images
    /\ LET c == [LoopCall(h[id], id) EXCEPT !.reference_image_base64 = <<>>]
       IN h' = [h EXCEPT ![id] =
                  [@ EXCEPT !.calls = Append(@,
                                [call |-> c,
                                 payload |-> BuildPayload(ApiKey, c.prompt, c.model_id,
                                                c.orientation, c.reference_image_base64,
                                                c.task_uuid)]),
                            !.pc = "generating"]]
    /\ UNCHANGED <<pvars, cvars>>

\* line 297: generate_image returns
D_GenReturn(id) ==
    /\ h[id].pc = "generating"
    /\ h[id].req.kind = "direct"
    /\ LET c == h[id].calls[Len(h[id].calls)].call
       IN \E n \in HandlerNets(c.task_uuid, OtherToken(id)) :
             h' = [h EXCEPT ![id] =
                     [@ EXCEPT !.image_base64 = generate_image(c.task_uuid, n).ret,
                               !.pc = "result"]]
    /\ UNCHANGED <<pvars, cvars>>

\* lines 299-309: the image is sent
D_Deliver(id) ==
    /\ h[id].pc = "result"
    /\ h[id].req.kind = "direct"
    /\ Truthy(h[id].image_base64)
    /\ h' = [h EXCEPT ![id] =
               [@ EXCEPT !.sent = Append(@, Photo(B64Decode(h[id].image_base64[1]),
                                                  PhotoCaption(h[id], "Generated"))),
                         !.i = @ + 1,
                         !.pc = "loop"]]
    /\ UNCHANGED <<pvars, cvars>>

\* D_FailNotice that goes on with the next image
D_FailNotice_Continues(id) ==
    /\ h[id].pc = "result"
    /\ h[id].req.kind = "direct"
    /\ ~Truthy(h[id].image_base64)
    /\ h' = [h EXCEPT ![id] = [@ EXCEPT !.i = @ + 1, !.pc = "loop"]]
    /\ UNCHANGED <<pvars, cvars>>

\* D_FailNotice with a failure flag that every loop reads: the failure of
\* one interaction ends every interaction that is in its loop
D_FailNotice_StopsAll(id) ==
    /\ h[id].pc = "result"
    /\ h[id].req.kind = "direct"
    /\ ~Truthy(h[id].image_base64)
    /\ h' = [j \in DOMAIN h |->
                IF j = id \/ h[j].pc \in {"loop", "generating", "result"}
                THEN [h[j] EXCEPT !.progress = "failed", !.pc = "done"]
                ELSE h[j]]
    /\ UNCHANGED <<pvars, cvars>>

\* lines 310-312: the first failure ends the loop
D_FailNotice(id) ==
    /\ h[id].pc = "result"
    /\ h[id].req.kind = "direct"
    /\ ~Truthy(h[id].image_base64)
    /\ h' = [h EXCEPT ![id] = [@ EXCEPT !.progress = "failed", !.pc = "done"]]
    /\ UNCHANGED <<pvars, cvars>>

\* D_Delete that returns without removing the progress message
D_Delete_KeepsMessage(id) ==
    /\ h[id].pc = "loop"
    /\ h[id].req.kind = "direct"
    /\ ~(h[id].i < h[id].num_images)
    /\ h' = [h EXCEPT ![id] = [@ EXCEPT !.pc = "done"]]
    /\ UNCHANGED <<pvars, cvars>>

\* line 314: every image was sent
D_Delete(id) ==
    /\ h[id].pc = "loop"
    /\ h[id].req.kind = "direct"
    /\ ~(h[id].i < h[id].num_images)
    /\ h' = [h EXCEPT ![id] = [@ EXCEPT !.progress = "deleted", !.pc = "done"]]
    /\ UNCHANGED <<pvars, cvars>>

\* lines 305, 311, 314, 316-318: reply_photo, edit_text or delete raises
\* and the except clause turns the progress message into the error notice
D_Except(id) ==
    /\ h[id].req.kind = "direct"
    /\ \/ h[id].pc = "result"
       \/ h[id].pc = "loop" /\ ~(h[id].i < h[id].num_images)
    /\ h' = [h EXCEPT ![id] = [@ EXCEPT !.progress = "error", !.pc = "done"]]
    /\ UNCHANGED <<pvars, cvars>>

------------------------------------------------------------------------------
\* handle_photo_with_caption

\* lines 322-323: no photo or no caption
P_Ignore(id) ==
    /\ h[id].pc = "start"
    /\ h[id].req.kind = "photo"
    /\ (~h[id].req.has_photo \/ ~Truthy(h[id].req.caption))
    /\ h' = [h EXCEPT ![id] = [@ EXCEPT !.pc = "done"]]
    /\ UNCHANGED <<pvars, cvars>>

\* lines 325-328: a caption of whitespace
P_BlankCaption(id) ==
    /\ h[id].pc = "start"
    /\ h[id].req.kind = "photo"
    /\ h[id].req.has_photo /\ Truthy(h[id].req.caption)
    /\ Strip(h[id].req.caption[1]) = <<>>
    /\ h' = [h EXCEPT ![id] = [@ EXCEPT !.sent = Append(@, Text("provide a caption")),
                                        !.pc = "done"]]
    /\ UNCHANGED <<pvars, cvars>>

\* P_Announce whose fallback replaces the prompt only and keeps the parsed
\* options (without lines 336-338)
P_Announce_KeepsOptions(id) ==
    /\ h[id].pc = "start"
    /\ h[id].req.kind = "photo"
    /\ h[id].req.has_photo /\ Truthy(h[id].req.caption)
    /\ \E caption \in {Strip(h[id].req.caption[1])} :
       \E r \in {parse_command_args(Split(caption))} :
       \E e \in {IF r.prompt = <<>>
                 THEN [r EXCEPT !.prompt = caption]
                 ELSE r} :
          /\ caption # <<>>
          /\ h' = [h EXCEPT ![id] =
                     [@ EXCEPT !.orientation = e.orientation,
                               !.num_images = e.num_images,
                               !.use_max = e.use_max,
                               !.prompt = e.prompt,
                               !.model_key = IF e.use_max THEN "kontext-max" ELSE "kontext",
                               !.progress = "processing",
                               !.pc = "upload"]]
    /\ UNCHANGED <<pvars, cvars>>

\* P_Announce without the fallback (lines 334-338): the parsed values are
\* used as they are
P_Announce_NoFallback(id) ==
    /\ h[id].pc = "start"
    /\ h[id].req.kind = "photo"
    /\ h[id].req.has_photo /\ Truthy(h[id].req.caption)
    /\ \E caption \in {Strip(h[id].req.caption[1])} :
       \E r \in {parse_command_args(Split(caption))} :
       \E e \in {r} :
          /\ caption # <<>>
          /\ h' = [h EXCEPT ![id] =
                     [@ EXCEPT !.orientation = e.orientation,
                               !.num_images = e.num_images,
                               !.use_max = e.use_max,
                               !.prompt = e.prompt,
                               !.model_key = IF e.use_max THEN "kontext-max" ELSE "kontext",
                               !.progress = "processing",
                               !.pc = "upload"]]
    /\ UNCHANGED <<pvars, cvars>>

\* lines 325-349: the caption is parsed, the processing message is sent
P_Announce(id) ==
    /\ h[id].pc = "start"
    /\ h[id].req.kind = "photo"
    /\ h[id].req.has_photo /\ Truthy(h[id].req.caption)
    /\ \E caption \in {Strip(h[id].req.caption[1])} :
       \E r \in {parse_command_args(Split(caption))} :
       \* lines 334-338
       \E e \in {IF r.prompt = <<>>
                 THEN [orientation |-> S_portrait, num_images |-> 1,
                       use_max |-> FALSE, prompt |-> caption]
                 ELSE r} :
          /\ caption # <<>>
          /\ h' = [h EXCEPT ![id] =
                     [@ EXCEPT !.orientation = e.orientation,
                               !.num_images = e.num_images,
                               !.use_max = e.use_max,
                               !.prompt = e.prompt,
                               !.model_key = IF e.use_max THEN "kontext-max" ELSE "kontext",
                               !.progress = "processing",
                               !.pc = "upload"]]
    /\ UNCHANGED <<pvars, cvars>>

\* P_UploadFails without the test of line 358: the handler goes on to the
\* loop with the failed reference image
P_UploadFails_GoesOn(id) ==
    /\ h[id].pc = "upload"
    /\ \E tg \in TelegramFiles :
          /\ ~Truthy(upload_telegram_image(tg))
          /\ h' = [h EXCEPT ![id] =
                     [@ EXCEPT !.reference_image_base64 = upload_telegram_image(tg),
                               !.progress = "editing",
                               !.i = 0,
                               !.pc = "loop"]]
    /\ UNCHANGED <<pvars, cvars>>

\* lines 353-360: the reference image could not be fetched
P_UploadFails(id) ==
    /\ h[id].pc = "upload"
    /\ \E tg \in TelegramFiles :
          /\ ~Truthy(upload_telegram_image(tg))
          /\ h' = [h EXCEPT ![id] =
                     [@ EXCEPT !.reference_image_base64 = upload_telegram_image(tg),
                               !.progress = "ref_failed",
                               !.pc = "done"]]
    /\ UNCHANGED <<pvars, cvars>>

\* lines 353-366: the reference image is there, the message says "Editing"
P_Uploaded(id) ==
    /\ h[id].pc = "upload"
    /\ \E tg \in TelegramFiles :
          /\ Truthy(upload_telegram_image(tg))
          /\ h' = [h EXCEPT ![id] =
                     [@ EXCEPT !.reference_image_base64 = upload_telegram_image(tg),
                               !.progress = "editing",
                               !.i = 0,
                               !.pc = "loop"]]
    /\ UNCHANGED <<pvars, cvars>>

\* lines 369-370: the next iteration calls generate_image
P_GenStart(id) ==
    /\ h[id].pc = "loop"
    /\ h[id].req.kind = "photo"
    /\ h[id].i < h[id].num_images
    /\ LET c == LoopCall(h[id], id)
       IN h' = [h EXCEPT ![id] =
                  [@ EXCEPT !.calls = Append(@,
                                [call |-> c,
                                 payload |-> BuildPayload(ApiKey, c.prompt, c.model_id,
                                                c.orientation, c.reference_image_base64,
                                                c.task_uuid)]),
                            !.pc = "generating"]]
    /\ UNCHANGED <<pvars, cvars>>

\* line 370: generate_image returns
P_GenReturn(id) ==
    /\ h[id].pc = "generating"
    /\ h[id].req.kind = "photo"
    /\ LET c == h[id].calls[Len(h[id].calls)].call
       IN \E n \in HandlerNets(c.task_uuid, OtherToken(id)) :
             h' = [h EXCEPT ![id] =
                     [@ EXCEPT !.image_base64 = generate_image(c.task_uuid, n).ret,
                               !.pc = "result"]]
    /\ UNCHANGED <<pvars, cvars>>

\* lines 372-383: the edited image is sent
P_Deliver(id) ==
    /\ h[id].pc = "result"
    /\ h[id].req.kind = "photo"
    /\ Truthy(h[id].image_base64)
    /\ h' = [h EXCEPT ![id] =
               [@ EXCEPT !.sent = Append(@, Photo(B64Decode(h[id].image_base64[1]),
                                                  PhotoCaption(h[id], "Edited"))),
                         !.i = @ + 1,
                         !.pc = "loop"]]
    /\ UNCHANGED <<pvars, cvars>>

\* P_FailNotice that goes on with the next image
P_FailNotice_Continues(id) ==
    /\ h[id].pc = "result"
    /\ h[id].req.kind = "photo"
    /\ ~Truthy(h[id].image_base64)
    /\ h' = [h EXCEPT ![id] = [@ EXCEPT !.i = @ + 1, !.pc = "loop"]]
    /\ UNCHANGED <<pvars, cvars>>

\* lines 384-386: the first failure ends the loop
P_FailNotice(id) ==
    /\ h[id].pc = "result"
    /\ h[id].req.kind = "photo"
    /\ ~Truthy(h[id].image_base64)
    /\ h' = [h EXCEPT ![id] = [@ EXCEPT !.progress = "failed", !.pc = "done"]]
    /\ UNCHANGED <<pvars, cvars>>

\* line 388: every image was sent
P_Delete(id) ==
    /\ h[id].pc = "loop"
    /\ h[id].req.kind = "photo"
    /\ ~(h[id].i < h[id].num_images)
    /\ h' = [h EXCEPT ![id] = [@ EXCEPT !.progress = "deleted", !.pc = "done"]]
    /\ UNCHANGED <<pvars, cvars>>

\* lines 363, 379, 385, 388, 390-392: a call of the chat transport raises
\* and the except clause turns the processing message into the error notice
P_Except(id) ==
    /\ h[id].req.kind = "photo"
    /\ \/ h[id].pc = "upload"
       \/ h[id].pc = "result"
       \/ h[id].pc = "loop" /\ ~(h[id].i < h[id].num_images)
    /\ h' = [h EXCEPT ![id] = [@ EXCEPT !.progress = "error", !.pc = "done"]]
    /\ UNCHANGED <<pvars, cvars>>

------------------------------------------------------------------------------
Init ==
    /\ ParseIdle
    /\ ClientIdle
    /\ \E req \in Requests : h = <<NewInteraction(req)>>

Next ==
    \/ \E id \in DOMAIN h : D_NoArgs(id)
    \/ \E id \in DOMAIN h : D_EmptyPrompt(id)
    \/ \E id \in DOMAIN h : D_Announce(id)
    \/ \E id \in DOMAIN h : D_GenStart(id)
    \/ \E id \in DOMAIN h : D_GenReturn(id)
    \/ \E id \in DOMAIN h : D_Deliver(id)
    \/ \E id \in DOMAIN h : D_FailNotice(id)
    \/ \E id \in DOMAIN h : D_Delete(id)
    \/ \E id \in DOMAIN h : P_Ignore(id)
    \/ \E id \in DOMAIN h : P_BlankCaption(id)
    \/ \E id \in DOMAIN h : P_Announce(id)
    \/ \E id \in DOMAIN h : P_UploadFails(id)
    \/ \E id \in DOMAIN h : P_Uploaded(id)
    \/ \E id \in DOMAIN h : P_GenStart(id)
    \/ \E id \in DOMAIN h : P_GenReturn(id)
    \/ \E id \in DOMAIN h : P_Deliver(id)
    \/ \E id \in DOMAIN h : P_FailNotice(id)
    \/ \E id \in DOMAIN h : P_Delete(id)

\* the chat transport's calls return (spec.md, section 1)
Spec == Init /\ [][Next]_vars

\* every external call returns and asyncio resumes the handler that awaits
\* it: a handler that can take a step takes one
SpecLive == Spec /\ WF_vars(Next)

\* a step of the handler of interaction id
HandlerStep(id) ==
    \/ D_NoArgs(id) \/ D_EmptyPrompt(id) \/ D_Announce(id) \/ D_GenStart(id)
    \/ D_GenReturn(id) \/ D_Deliver(id) \/ D_FailNotice(id) \/ D_Delete(id)
    \/ P_Ignore(id) \/ P_BlankCaption(id) \/ P_Announce(id) \/ P_UploadFails(id)
    \/ P_Uploaded(id) \/ P_GenStart(id) \/ P_GenReturn(id) \/ P_Deliver(id)
    \/ P_FailNotice(id) \/ P_Delete(id)

\* the requests of two users whose interactions run together
PairRequests ==
    {[kind |-> "direct", model_key |-> "flux", args |-> <<>>,
      has_photo |-> FALSE, caption |-> <<>>],
     [kind |-> "direct", model_key |-> "flux", args |-> <<T_S>>,
      has_photo |-> FALSE, caption |-> <<>>],
     [kind |-> "direct", model_key |-> "kontext", args |-> <<T_n, T_2, T_fox>>,
      has_photo |-> FALSE, caption |-> <<>>],
     [kind |-> "photo", model_key |-> "", args |-> <<>>,
      has_photo |-> TRUE, caption |-> <<>>],
     [kind |-> "photo", model_key |-> "", args |-> <<>>,
      has_photo |-> TRUE, caption |-> <<<<" ", " ">>>>],
     [kind |-> "photo", model_key |-> "", args |-> <<>>,
      has_photo |-> TRUE, caption |-> <<Join(<<T_n, T_2, T_max, T_fox>>)>>]}

\* two updates whose handlers asyncio runs together, switching from one to
\* the other at any await
InitPair ==
    /\ ParseIdle
    /\ ClientIdle
    /\ \E r1, r2 \in PairRequests : h = <<NewInteraction(r1), NewInteraction(r2)>>

SpecPair == InitPair /\ [][Next]_vars

NextFaults ==
    \/ Next
    \/ \E id \in DOMAIN h : D_Except(id)
    \/ \E id \in DOMAIN h : P_Except(id)

\* a chat transport call inside the try block may raise
SpecFaults == Init /\ [][NextFaults]_vars

(***************************************************************************)
(* What the parser is expected to return, read off the argument list       *)
(* itself (by position), independently of the loop.                        *)
(***************************************************************************)
OrientationFlags == {T_landscape, T_l, T_portrait, T_p, T_square, T_s}
MaxFlags == {T_ddmax, T_max}

IsOrientationFlag(t) == Lower(t) \in OrientationFlags
IsMaxFlag(t) == Lower(t) \in MaxFlags
IsN(t) == Lower(t) = T_n
IsIntToken(t) == ParseInt(t) # <<>>

\* a -n at position k (1-based) directly followed by an integer token
ValidNAt(a, k) == IsN(a[k]) /\ k < Len(a) /\ IsIntToken(a[k + 1])
\* a -n at position k that is last or followed by a non-integer
InvalidNAt(a, k) == IsN(a[k]) /\ ~ValidNAt(a, k)
\* the integer argument of a -n
CountArgAt(a, k) == k > 1 /\ ValidNAt(a, k - 1)
\* the positions the parser is expected to strip
StrippedAt(a, k) ==
    IsOrientationFlag(a[k]) \/ IsMaxFlag(a[k]) \/ ValidNAt(a, k) \/ CountArgAt(a, k)

RECURSIVE SubseqWhere(_, _, _)
\* the subsequence of a at the positions k..Len(a) that are in P
SubseqWhere(a, P, k) ==
    IF k > Len(a) THEN <<>>
    ELSE IF k \in P THEN <<a[k]>> \o SubseqWhere(a, P, k + 1)
    ELSE SubseqWhere(a, P, k + 1)

\* the tokens expected to survive, and the tokens expected to be stripped
Survivors(a) == SubseqWhere(a, {k \in 1..Len(a) : ~StrippedAt(a, k)}, 1)
FlagsOnly(a) == SubseqWhere(a, {k \in 1..Len(a) : StrippedAt(a, k)}, 1)

OrientationNamed(t) ==
    IF Lower(t) \in {T_landscape, T_l} THEN S_landscape
    ELSE IF Lower(t) \in {T_square, T_s} THEN S_square
    ELSE S_portrait

ExpectedOrientation(a) ==
    LET at == {k \in 1..Len(a) : IsOrientationFlag(a[k])}
    IN IF at = {} THEN S_portrait
       ELSE OrientationNamed(a[CHOOSE k \in at : \A m \in at : m <= k])

MinOf(x, y) == IF x <= y THEN x ELSE y
MaxOf(x, y) == IF x >= y THEN x ELSE y

ExpectedCount(a) ==
    LET at == {k \in 1..Len(a) : ValidNAt(a, k)}
    IN IF at = {} THEN 1
       ELSE LET last == CHOOSE k \in at : \A m \in at : m <= k
            IN MinOf(10, MaxOf(1, ParseInt(a[last + 1])[1]))

AllNValid(a) == \A k \in 1..Len(a) : IsN(a[k]) => ValidNAt(a, k)

\* the second pass of the parser, over its own output prompt
SecondPass == parse_command_args(Split(prompt))

NothingRecognised(p) ==
    [orientation |-> S_portrait, num_images |-> 1, use_max |-> FALSE, prompt |-> p]

\* a surviving -n that stands directly before a surviving integer token
RejoinedCount(a) ==
    LET s == Survivors(a)
    IN \E k \in 1..(Len(s) - 1) : IsN(s[k]) /\ IsIntToken(s[k + 1])

(***************************************************************************)
(* C4. Argument Parser idempotence.                                        *)
(***************************************************************************)
\* C4 as stated: for every token sequence, parsing the whitespace-split
\* tokens of the returned prompt again recognises no flag: the second pass
\* returns the prompt unchanged, default orientation, count 1, no max.
C4_Original ==
    ppc = "done" => SecondPass = NothingRecognised(prompt)

\* C4 amended: no orientation or max flag ever reappears in the prompt, so
\* the second pass always returns portrait (its default) and no max; it
\* returns the prompt unchanged with count 1 exactly when no -n left in
\* place by the first pass stands, once the stripped tokens between them
\* are gone, directly before an integer token (so always when every -n of
\* the input is directly followed by an integer). Otherwise the second
\* pass consumes that `-n <int>` pair: it sets a count and shortens the
\* prompt.
C4_Amended ==
    ppc = "done" =>
        /\ SecondPass.orientation = S_portrait
        /\ SecondPass.use_max = FALSE
        /\ ~RejoinedCount(args) => SecondPass = NothingRecognised(prompt)
        /\ RejoinedCount(args) =>
              /\ SecondPass.prompt # prompt
              /\ Len(SecondPass.prompt) < Len(prompt)
        /\ AllNValid(args) => ~RejoinedCount(args)

\* `-n --landscape 3`: the first pass returns landscape, count 1 and the prompt
\* "-n 3"; a second pass over that prompt sets the count to 3
C4_Witness ==
    /\ ppc = "done"
    /\ args = <<T_n, T_landscape, T_3>>
    /\ prompt = <<"-","n"," ","3">>
    /\ orientation = S_landscape
    /\ num_images = 1
    /\ SecondPass.num_images = 3
    /\ SecondPass.prompt = <<>>

(***************************************************************************)
(* C6. An invalid -n.                                                      *)
(***************************************************************************)
\* the loop stands on a -n that is the last token or is followed by a token
\* int() refuses
OnInvalidN ==
    /\ ppc = "loop"
    /\ i < Len(prompt_args)
    /\ IsN(prompt_args[i + 1])
    /\ (i + 1 = Len(prompt_args) \/ ~IsIntToken(prompt_args[i + 2]))

\* the guard of one of the loop's actions holds
CanStep ==
    \/ /\ i < Len(prompt_args)
       /\ Branch(ParseState) \in
             {"landscape", "portrait", "square", "max", "count", "except", "else"}
    \/ ~(i < Len(prompt_args))

\* C6: the scan never gets stuck and never indexes past the list (nothing
\* is raised), and every iteration brings it closer to its end, so it
\* terminates; an iteration on an invalid -n changes neither the count nor
\* the token list and moves on by exactly one token, so the token after it
\* is scanned on its own; and every invalid -n of the input is in the
\* returned prompt, whose tokens are the input's tokens without the flags
\* and the valid `-n <int>` pairs.
C6_InvalidCount ==
    /\ [](ppc = "loop" => (i \in 0..Len(prompt_args) /\ CanStep))
    /\ [](ppc = "done" =>
            /\ prompt = Join(Survivors(args))
            /\ \A k \in 1..Len(args) : InvalidNAt(args, k) =>
                  \E m \in 1..Len(prompt_args) : prompt_args[m] = args[k]
            /\ num_images = ExpectedCount(args))
    /\ [][/\ ppc = "loop" =>
               \/ ppc' = "done"
               \/ /\ ppc' = "loop"
                  /\ Len(prompt_args') - i' < Len(prompt_args) - i
          /\ OnInvalidN =>
               /\ num_images' = num_images
               /\ prompt_args' = prompt_args
               /\ i' = i + 1
               /\ ppc' = "loop"]_vars

\* `-n -S`: the -n stays, the -S after it is still taken as a flag
C6_Witness ==
    /\ ppc = "done"
    /\ args = <<T_n, T_S>>
    /\ prompt = T_n
    /\ orientation = S_square
    /\ num_images = 1

(***************************************************************************)
(* C7. Orientation flags: the last one wins, portrait by default.          *)
(***************************************************************************)
\* C7: the returned orientation is the one named by the last orientation
\* flag of the sequence (any case), portrait when there is none.
C7_LastWins ==
    ppc = "done" => orientation = ExpectedOrientation(args)

\* `--landscape --Portrait` yields portrait
C7_Witness ==
    /\ ppc = "done"
    /\ args = <<T_landscape, T_Portrait>>
    /\ orientation = S_portrait

(***************************************************************************)
(* C8. Flag removal and order-independence.                                *)
(***************************************************************************)
\* C8: when every -n is directly followed by an integer token, the prompt
\* is the non-flag, non-count tokens in their order joined by single
\* spaces (so splitting it gives them back), and orientation, count and
\* max are those of the flags alone, in their order, with the prompt words
\* taken out: the same wherever the flags stand among the words.
C8_FlagRemoval ==
    (ppc = "done" /\ AllNValid(args)) =>
        /\ prompt = Join(Survivors(args))
        /\ Split(prompt) = Survivors(args)
        /\ \A k \in 1..Len(prompt_args) :
              ~IsOrientationFlag(prompt_args[k]) /\ ~IsMaxFlag(prompt_args[k])
              /\ ~IsN(prompt_args[k])
        /\ LET f == parse_command_args(FlagsOnly(args))
           IN /\ f.prompt = <<>>
              /\ orientation = f.orientation
              /\ num_images = f.num_images
              /\ use_max = f.use_max
        /\ orientation = ExpectedOrientation(args)
        /\ num_images = ExpectedCount(args)
        /\ use_max = (\E k \in 1..Len(args) : IsMaxFlag(args[k]))

\* `3 -S fox`: a flag between two words
C8_Witness ==
    /\ ppc = "done"
    /\ args = <<T_3, T_S, T_fox>>
    /\ prompt = <<"3"," ","f","o","x">>
    /\ orientation = S_square
    /\ num_images = 1

(***************************************************************************)
(* The handlers: what the claims speak of.                                 *)
(***************************************************************************)
IsPhoto(m) == m.type = "photo"
\* the images delivered, in order
Photos(x) == SelectSeq(x.sent, IsPhoto)

\* the progress message is a failure notice
FailureNotices == {"failed", "error", "ref_failed"}

\* the request passed validation: the progress message was sent
Accepted(x) == x.progress # "none"

\* the last call of generate_image has returned a failure
GenFailed(x) == x.pc = "result" /\ ~Truthy(x.image_base64)

\* the tokens the handler gave the parser
TokensOf(req) ==
    IF req.kind = "direct" THEN req.args ELSE Split(Strip(req.caption[1]))

(***************************************************************************)
(* C1. The loop stops at the first failure.                                *)
(***************************************************************************)
\* C1: in both handlers, when the k-th call of generate_image of an
\* accepted request of N images is the first to fail, k <= N calls have
\* been made and the k-1 images before it delivered (and nothing else
\* sent); the handler's next and last step turns the progress message into
\* a failure notice, making no call and sending nothing; and a finished
\* handler does nothing more, so no call k+1..N is ever made.
C1_FailFast ==
    /\ [](\A id \in DOMAIN h :
            LET x == h[id]
            IN /\ GenFailed(x) =>
                    /\ Accepted(x)
                    /\ x.num_images \in 1..10
                    /\ Len(x.calls) = x.i + 1
                    /\ Len(x.calls) <= x.num_images
                    /\ x.sent = Photos(x)
                    /\ Len(Photos(x)) = x.i
               /\ (x.pc = "done" /\ x.calls # <<>> /\ ~Truthy(x.image_base64)) =>
                    /\ x.progress \in {"failed", "error"}
                    /\ Len(x.calls) = x.i + 1
                    /\ Len(Photos(x)) = x.i)
    /\ [][\A id \in DOMAIN h :
            /\ GenFailed(h[id]) =>
                 /\ h'[id].pc = "done"
                 /\ h'[id].progress \in {"failed", "error"}
                 /\ h'[id].calls = h[id].calls
                 /\ h'[id].sent = h[id].sent
            /\ h[id].pc = "done" => h'[id] = h[id]]_vars

\* `-n 3 fox` with the 2nd generation failing: 2 calls, 1 image, the notice
C1_Witness ==
    \E id \in DOMAIN h :
        /\ h[id].req.kind = "direct"
        /\ h[id].req.args = <<T_n, T_3, T_fox>>
        /\ h[id].pc = "done"
        /\ h[id].num_images = 3
        /\ Len(h[id].calls) = 2
        /\ Len(Photos(h[id])) = 1
        /\ h[id].progress = "failed"

(***************************************************************************)
(* C2. The number of calls of generate_image.                              *)
(***************************************************************************)
\* C2 as stated: when an interaction that passed validation (and, with a
\* photo, got its reference image) has finished, it has made exactly
\* image_count calls of generate_image, whatever their outcome.
C2_Original ==
    \A id \in DOMAIN h :
        (h[id].pc = "done" /\ Accepted(h[id]) /\ h[id].progress # "ref_failed")
            => Len(h[id].calls) = h[id].num_images

\* C2 amended: a finished interaction that passed validation has made at
\* most image_count calls. When every call succeeded it has made
\* image_count calls and delivered image_count images, and this is the one
\* case in which the progress message is removed. When the k-th call is
\* the first to fail it has made k calls (k <= image_count) and delivered
\* k-1 images. When the reference image of the editing path could not be
\* fetched it has made none.
C2_Amended ==
    \A id \in DOMAIN h :
        LET x == h[id]
        IN (x.pc = "done" /\ Accepted(x)) =>
              /\ Len(x.calls) <= x.num_images
              /\ x.progress \in {"deleted", "failed", "ref_failed"}
              /\ x.progress = "deleted" <=>
                    /\ Len(x.calls) = x.num_images
                    /\ Len(Photos(x)) = x.num_images
                    /\ Truthy(x.image_base64)
              /\ x.progress = "failed" =>
                    /\ ~Truthy(x.image_base64)
                    /\ Len(x.calls) = x.i + 1
                    /\ Len(Photos(x)) = x.i
              /\ x.progress = "ref_failed" => x.calls = <<>>

\* a caption `-n 3 fox` with the 2nd edit failing: 2 of the 3 calls are made
C2_Witness ==
    \E id \in DOMAIN h :
        /\ h[id].req.kind = "photo"
        /\ h[id].pc = "done"
        /\ h[id].num_images = 3
        /\ Len(h[id].calls) = 2
        /\ h[id].progress = "failed"

(***************************************************************************)
(* C3. An error field anywhere in the response.                            *)
(***************************************************************************)
\* an `error` key on the top-level object, on an element of the top-level
\* list, or on an element of the object's `data` list
ErrorAnywhere(body) ==
    IF body.kind = "list"
    THEN \E k \in 1..Len(body.list) : "error" \in DOMAIN body.list[k]
    ELSE \/ "error" \in DOMAIN body.obj
         \/ /\ "data" \in DOMAIN body.obj
            /\ \E k \in 1..Len(body.obj.data) : "error" \in DOMAIN body.obj.data[k]

\* C3: for every HTTP-200 response of either shape, an `error` field
\* anywhere in it makes generate_image return failure without fetching an
\* asset.
C3_ErrorAnywhere ==
    (/\ cpc = "returned"
     /\ ~net.post.raises
     /\ net.post.status = 200
     /\ net.post.kind \in {"list", "dict"}
     /\ ErrorAnywhere(net.post))
        => (out.ret = <<>> /\ out.fetched = <<>>)

(***************************************************************************)
(* C5. image_count is within 1..10.                                        *)
(***************************************************************************)
\* C5: the count a handler works with is always in 1..10; once the tokens
\* are parsed it is min(10, max(1, k)) for the last `-n k` with an integer
\* k, and 1 when there is none (or when the caption's prompt came out
\* empty); and a handler never makes more calls than that, so never more
\* than 10.
C5_CountInRange ==
    \A id \in DOMAIN h :
        LET x == h[id]
        IN /\ x.num_images \in 1..10
           /\ Len(x.calls) <= x.num_images
           /\ Len(x.calls) <= 10
           /\ (x.req.kind = "direct" /\ x.pc # "start" /\ x.req.args # <<>>) =>
                 x.num_images = ExpectedCount(x.req.args)
           /\ (x.req.kind = "photo" /\ Accepted(x)) =>
                 x.num_images =
                    IF Survivors(TokensOf(x.req)) = <<>> THEN 1
                    ELSE ExpectedCount(TokensOf(x.req))

\* `-n 15 fox`: the count is 10 and the 10th call is made
C5_Witness ==
    \E id \in DOMAIN h :
        /\ h[id].req.kind = "direct"
        /\ h[id].req.args = <<T_n, T_15, T_fox>>
        /\ h[id].num_images = 10
        /\ Len(h[id].calls) = 10

(***************************************************************************)
(* C9. Validation in direct generation.                                    *)
(***************************************************************************)
\* the command has no tokens, or its tokens leave no prompt
Rejected(req) ==
    req.kind = "direct" /\ (req.args = <<>> \/ Survivors(req.args) = <<>>)

\* C9: a direct-generation request with no tokens, or whose tokens leave an
\* empty prompt, ends in one step with exactly one usage hint sent: no
\* progress message, no call of generate_image (so no request to the
\* remote service); every other request with tokens gets its progress
\* message.
C9_Validation ==
    \A id \in DOMAIN h :
        LET x == h[id]
        IN /\ Rejected(x.req) =>
                /\ x.pc \in {"start", "done"}
                /\ x.progress = "none"
                /\ x.calls = <<>>
                /\ x.pc = "start" => x.sent = <<>>
                /\ x.pc = "done" =>
                      /\ Len(x.sent) = 1
                      /\ x.sent[1].type = "text"
                      /\ x.sent[1].text \in {"usage", "usage after options"}
           /\ (x.req.kind = "direct" /\ ~Rejected(x.req) /\ x.pc # "start") =>
                /\ Accepted(x)
                /\ x.prompt # <<>>

\* `-l -s` is answered by the usage hint alone
C9_Witness ==
    \E id \in DOMAIN h :
        /\ h[id].req.kind = "direct"
        /\ h[id].req.args = <<T_l, T_s>>
        /\ h[id].pc = "done"
        /\ h[id].sent = <<Text("usage after options")>>
        /\ h[id].calls = <<>>

(***************************************************************************)
(* C10. The reference image goes only to a model that supports it.         *)
(***************************************************************************)
HasReference(payload) == "referenceImages" \in DOMAIN payload[2]

\* C10: every payload a handler posts carries referenceImages only if a
\* reference image was given to the call and the registry says the model
\* supports one (and then it is that image); no call of direct generation
\* carries one; and for every model id of the registry, with or without a
\* reference image, generate_image attaches it exactly when one is given
\* and the model's supports_reference is true.
C10_ReferenceOnlyIfCapable ==
    /\ \A id \in DOMAIN h :
        \A k \in 1..Len(h[id].calls) :
            LET c == h[id].calls[k]
            IN /\ HasReference(c.payload) =>
                    /\ Truthy(c.call.reference_image_base64)
                    /\ ModelOfId(c.call.model_id).supports_reference
                    /\ c.payload[2].referenceImages = <<c.call.reference_image_base64[1]>>
                    /\ h[id].req.kind = "photo"
               /\ ~ModelOfId(c.payload[2].model).supports_reference =>
                    ~HasReference(c.payload)
               /\ h[id].req.kind = "direct" => ~HasReference(c.payload)
    /\ \A m \in ModelIds : \A r \in {<<>>, <<<<>>>>, <<ReferenceB64>>} :
          HasReference(BuildPayload(ApiKey, T_fox, m, S_portrait, r, ForeignUuid))
             <=> (Truthy(r) /\ ModelOfId(m).supports_reference)

\* a call of the editing path with the reference image in its payload
C10_Witness ==
    \E id \in DOMAIN h :
        /\ h[id].req.kind = "photo"
        /\ Len(h[id].calls) >= 1
        /\ HasReference(h[id].calls[1].payload)
        /\ h[id].calls[1].payload[2].model = Id_kontext

(***************************************************************************)
(* C11. No cross-match of correlation tokens.                              *)
(***************************************************************************)
\* the result objects of a response: the list itself, or the object's data
Elements(body) ==
    IF body.kind = "list" THEN body.list
    ELSE IF body.kind = "dict" /\ "data" \in DOMAIN body.obj THEN body.obj.data
    ELSE <<>>

\* e is an inference result carrying the token u and a non-empty imageURL
OwnResult(e, u) ==
    /\ "taskType" \in DOMAIN e /\ e.taskType = "imageInference"
    /\ "taskUUID" \in DOMAIN e /\ e.taskUUID = u
    /\ "imageURL" \in DOMAIN e /\ e.imageURL # ""

\* C11: a returned call of generate_image has fetched an asset, or returned
\* anything but failure, only if the POST was answered 200 with a response
\* holding an imageInference element that carries the call's own token and
\* a non-empty imageURL, and what it fetched is the imageURL of such an
\* element; when no element of the response is one (every inference result
\* has another token, no imageURL or an empty one, or the object has no
\* `data` list) it has fetched nothing and returned failure.
C11_NoCrossMatch ==
    cpc = "returned" =>
        LET els == Elements(net.post)
            own == {k \in 1..Len(els) : OwnResult(els[k], call.task_uuid)}
        IN /\ (out.fetched # <<>> \/ out.ret # <<>>) =>
                 /\ ~net.post.raises
                 /\ net.post.status = 200
                 /\ own # {}
                 /\ \E k \in own : out.fetched = <<els[k].imageURL>>
           /\ own = {} => (out.fetched = <<>> /\ out.ret = <<>>)
           /\ (net.post.kind = "dict" /\ "data" \notin DOMAIN net.post.obj) =>
                 (out.fetched = <<>> /\ out.ret = <<>>)

\* the only inference result carries a token the call did not issue
C11_Witness ==
    /\ cpc = "returned"
    /\ net.post.kind = "list"
    /\ net.post.list = <<[taskType |-> "imageInference", taskUUID |-> OtherUuid,
                          imageURL |-> AssetUrl]>>
    /\ call.task_uuid = ClientUuid
    /\ out.fetched = <<>>
    /\ out.ret = <<>>

(***************************************************************************)
(* C12. The run in which every generation succeeds.                        *)
(***************************************************************************)
\* C12: the progress message is sent before the first call of
\* generate_image and there is never a second one; the images are
\* delivered in the order of the calls, the j-th with a caption naming the
\* model, the orientation and the prompt, with the index "j of N" when
\* N > 1 and without an index when N = 1; the progress message is removed
\* only in a step taken after the N-th delivery, when N calls have been
\* made and exactly the N images sent; and a finished interaction whose N
\* calls all succeeded has had it removed.
C12_FullSuccess ==
    /\ [](\A id \in DOMAIN h :
            LET x == h[id]
                N == x.num_images
                ph == Photos(x)
            IN /\ x.calls # <<>> => Accepted(x)
               /\ Len(ph) <= Len(x.calls)
               /\ \A j \in 1..Len(ph) :
                     /\ ph[j].caption[1].index = IF N > 1 THEN <<j, N>> ELSE <<>>
                     /\ ph[j].caption[1].prompt = x.prompt
                     /\ ph[j].caption[1].model_name = MODELS[x.model_key].name
                     /\ ph[j].caption[1].orientation_text = OrientationText(x.orientation)
               /\ x.progress = "deleted" =>
                     /\ x.pc = "done"
                     /\ x.sent = ph
                     /\ Len(ph) = N
                     /\ Len(x.calls) = N
               /\ (x.pc = "done" /\ Accepted(x) /\ Len(x.calls) = N
                      /\ Truthy(x.image_base64)) => x.progress = "deleted")
    /\ [][\A id \in DOMAIN h :
            /\ (h[id].progress = "none" /\ h'[id].progress # "none") =>
                  (h[id].calls = <<>> /\ h'[id].calls = <<>> /\ h'[id].sent = <<>>)
            /\ h[id].progress # "none" => h'[id].progress # "none"
            /\ (h[id].progress # "deleted" /\ h'[id].progress = "deleted") =>
                  /\ Len(Photos(h[id])) = h[id].num_images
                  /\ h'[id].sent = h[id].sent
                  /\ h'[id].calls = h[id].calls
            /\ Len(h'[id].sent) >= Len(h[id].sent)
            /\ SubSeq(h'[id].sent, 1, Len(h[id].sent)) = h[id].sent]_vars

\* `-n 2 -l a red fox`: landscape, 2 images of "a red fox", captioned
\* "1 of 2" and "2 of 2", then the progress message is removed
C12_Witness ==
    \E id \in DOMAIN h :
        /\ h[id].req.kind = "direct"
        /\ h[id].req.args = <<T_n, T_2, T_l, T_a, T_red, T_fox>>
        /\ h[id].orientation = S_landscape
        /\ h[id].num_images = 2
        /\ h[id].prompt = <<"a"," ","r","e","d"," ","f","o","x">>
        /\ Len(h[id].calls) = 2
        /\ Len(h[id].sent) = 2
        /\ h[id].sent[1].caption[1].index = <<1, 2>>
        /\ h[id].sent[2].caption[1].index = <<2, 2>>
        /\ h[id].progress = "deleted"
        /\ h[id].pc = "done"

(***************************************************************************)
(* C13. The calls of one interaction are strictly sequential.              *)
(***************************************************************************)
\* C13: in every state an interaction has at most one call of
\* generate_image that has not returned: while one is awaited it is the
\* (i+1)-th and the i calls before it have all returned and their images
\* been delivered, and between iterations every call made has been
\* delivered. A call is started only from between iterations, with every
\* earlier image delivered, one call at a time; while a call is awaited
\* the interaction's only step is that call's return, which starts no call
\* and sends nothing.
C13_Sequential ==
    /\ [](\A id \in DOMAIN h :
            LET x == h[id]
            IN /\ Len(x.calls) - Len(Photos(x)) \in {0, 1}
               /\ x.pc = "generating" =>
                     (Len(x.calls) = x.i + 1 /\ Len(Photos(x)) = x.i)
               /\ x.pc = "result" => Len(x.calls) = x.i + 1
               /\ x.pc = "loop" =>
                     (Len(x.calls) = x.i /\ Len(Photos(x)) = x.i))
    /\ [][\A id \in DOMAIN h :
            /\ h'[id].calls # h[id].calls =>
                  /\ h[id].pc = "loop"
                  /\ h'[id].pc = "generating"
                  /\ Len(Photos(h[id])) = Len(h[id].calls)
                  /\ Len(h'[id].calls) = Len(h[id].calls) + 1
                  /\ SubSeq(h'[id].calls, 1, Len(h[id].calls)) = h[id].calls
            /\ (h[id].pc = "generating" /\ h'[id] # h[id]) =>
                  /\ h'[id].pc = "result"
                  /\ h'[id].calls = h[id].calls
                  /\ h'[id].sent = h[id].sent]_vars

\* the 2nd call is awaited, the 1st image has been delivered
C13_Witness ==
    \E id \in DOMAIN h :
        /\ h[id].pc = "generating"
        /\ h[id].num_images = 3
        /\ Len(h[id].calls) = 2
        /\ Len(Photos(h[id])) = 1

(***************************************************************************)
(* C14. Finalize.                                                          *)
(***************************************************************************)
\* the progress message shows one of the texts of a run under way
Underway(x) == x.progress \in {"generating", "processing", "editing"}

AllFinished == \A id \in DOMAIN h : h[id].pc = "done"

\* C14: when every external call returns, an interaction that sent its
\* progress message always finishes, with the message removed or turned
\* into a failure notice, never with a text of a run under way; it is
\* removed if and only if image_count calls were made, all succeeded and
\* image_count images were delivered; a failure notice and a removal are
\* final (a notice is never removed); and the loop is left only by the
\* removal after the last iteration or by the notice after a failed call.
C14_Finalize ==
    /\ [](\A id \in DOMAIN h :
            LET x == h[id]
            IN /\ (x.pc = "done" /\ Accepted(x)) =>
                     /\ ~Underway(x)
                     /\ x.progress \in {"deleted", "failed", "ref_failed"}
                     /\ x.progress = "deleted" <=>
                           /\ Len(x.calls) = x.num_images
                           /\ Len(Photos(x)) = x.num_images
                           /\ Truthy(x.image_base64)
               /\ x.progress \in {"deleted", "failed", "ref_failed"} => x.pc = "done")
    /\ [][\A id \in DOMAIN h :
            /\ h[id].progress \in {"deleted", "failed", "ref_failed"} =>
                  h'[id].progress = h[id].progress
            /\ (h[id].pc \in {"loop", "generating", "result"} /\ h'[id].pc = "done") =>
                  \/ /\ h[id].pc = "loop"
                     /\ h[id].i = h[id].num_images
                     /\ h'[id].progress = "deleted"
                  \/ /\ GenFailed(h[id])
                     /\ h'[id].progress = "failed"]_vars
    /\ (\E id \in DOMAIN h : Accepted(h[id])) ~> AllFinished

\* an edit of one image that succeeded: the processing message is removed
C14_Witness ==
    \E id \in DOMAIN h :
        /\ h[id].req.kind = "photo"
        /\ h[id].pc = "done"
        /\ h[id].num_images = 1
        /\ Len(Photos(h[id])) = 1
        /\ h[id].progress = "deleted"

(***************************************************************************)
(* C15. The fallback of the editing path.                                  *)
(***************************************************************************)
\* C15: for a photo whose caption passed validation, with toks the
\* whitespace-split tokens of the stripped caption: when the parser leaves
\* no prompt (every token is a flag or the argument of a -n) the prompt is
\* the stripped caption itself, the orientation portrait, the count 1 and
\* the model kontext, whatever flags the caption holds; otherwise the
\* prompt is the surviving tokens, the orientation that of the last
\* orientation flag, the count that of the last valid -n, and the model
\* kontext-max exactly when a max flag occurs. Every call of the
\* interaction is made with these values.
C15_Fallback ==
    \A id \in DOMAIN h :
        (h[id].req.kind = "photo" /\ Accepted(h[id])) =>
           \E x \in {h[id]} :
           \E cap \in {Strip(x.req.caption[1])} :
           \E toks \in {Split(cap)} :
           \E surv \in {Survivors(toks)} :
           \E hasMax \in {\E k \in 1..Len(toks) : IsMaxFlag(toks[k])} :
              /\ IF surv = <<>>
                 THEN /\ x.prompt = cap
                      /\ x.orientation = S_portrait
                      /\ x.num_images = 1
                      /\ x.use_max = FALSE
                      /\ x.model_key = "kontext"
                 ELSE /\ x.prompt = Join(surv)
                      /\ x.orientation = ExpectedOrientation(toks)
                      /\ x.num_images = ExpectedCount(toks)
                      /\ x.use_max = hasMax
                      /\ x.model_key = IF hasMax THEN "kontext-max" ELSE "kontext"
              /\ \A k \in 1..Len(x.calls) :
                    /\ x.calls[k].call.prompt = x.prompt
                    /\ x.calls[k].call.orientation = x.orientation
                    /\ x.calls[k].call.model_id = MODELS[x.model_key].id

\* the caption `-max -n 3` holds only flags: it is the prompt itself, and
\* one portrait image is asked of kontext
C15_Witness ==
    \E id \in DOMAIN h :
        /\ h[id].req.kind = "photo"
        /\ h[id].req.caption = <<Join(<<T_max, T_n, T_3>>)>>
        /\ h[id].prompt = Join(<<T_max, T_n, T_3>>)
        /\ h[id].num_images = 1
        /\ h[id].orientation = S_portrait
        /\ Len(h[id].calls) = 1
        /\ h[id].calls[1].call.model_id = Id_kontext
        /\ h[id].calls[1].call.prompt = Join(<<T_max, T_n, T_3>>)

(***************************************************************************)
(* C16. Where the high-tier model is used.                                 *)
(***************************************************************************)
\* C16: every call of a direct interaction is made with the model id
\* registered for the command's shortname (never that of kontext-max, no
\* command has it), also when a max flag is among the tokens, and that
\* flag is not in the prompt; every call of an editing interaction is made
\* with the id of kontext-max when the caption's parse left a prompt and
\* met a max flag, and with the id of kontext otherwise; all calls of one
\* interaction carry the same model id, in the call and in the payload.
C16_HighTierModel ==
    \A id \in DOMAIN h :
        h[id].calls # <<>> =>
           \E x \in {h[id]} :
           \E toks \in {TokensOf(x.req)} :
           \E surv \in {Survivors(toks)} :
           \E hasMax \in {\E k \in 1..Len(toks) : IsMaxFlag(toks[k])} :
           \E expected \in {IF x.req.kind = "direct" THEN MODELS[x.req.model_key].id
                             ELSE IF surv # <<>> /\ hasMax THEN Id_kontext_max
                             ELSE Id_kontext} :
              /\ \A k \in 1..Len(x.calls) :
                    /\ x.calls[k].call.model_id = expected
                    /\ x.calls[k].payload[2].model = expected
                    /\ x.calls[k].call.model_id = x.calls[1].call.model_id
              /\ x.req.kind = "direct" =>
                    /\ x.calls[1].call.model_id # Id_kontext_max
                    /\ x.prompt = Join(surv)
                    /\ \A w \in 1..Len(surv) : ~IsMaxFlag(surv[w])

\* /flux -max fox: the call is made with the id of flux and the prompt fox
C16_Witness ==
    \E id \in DOMAIN h :
        /\ h[id].req.kind = "direct"
        /\ h[id].req.model_key = "flux"
        /\ h[id].req.args = <<T_max, T_fox>>
        /\ h[id].use_max
        /\ Len(h[id].calls) = 1
        /\ h[id].calls[1].call.model_id = Id_flux
        /\ h[id].calls[1].call.prompt = T_fox

(***************************************************************************)
(* C17. The dimensions of a job.                                           *)
(***************************************************************************)
S_LANDSCAPE == <<"L","A","N","D","S","C","A","P","E">>
S_Square == <<"S","q","u","a","r","e">>
S_diagonal == <<"d","i","a","g","o","n","a","l">>

\* orientation values: the three the parser produces, the same in other
\* case (get_dimensions lowers its argument), and values that are none
OrientationValues ==
    {S_portrait, S_landscape, S_square, S_LANDSCAPE, S_Square, S_diagonal, <<>>}

\* the table of the four pairs, by family: the reference-capable models
\* and all others
DimensionTable(reference_capable, o) ==
    CASE o = "square" -> <<1024, 1024>>
      [] o = "landscape" /\ reference_capable -> <<1392, 752>>
      [] o = "portrait" /\ reference_capable -> <<752, 1392>>
      [] o = "landscape" /\ ~reference_capable -> <<1344, 704>>
      [] o = "portrait" /\ ~reference_capable -> <<704, 1344>>

\* how an orientation value is read
OrientationRead(o) ==
    IF Lower(o) = S_square THEN "square"
    ELSE IF Lower(o) = S_landscape THEN "landscape"
    ELSE "portrait"

\* the resolver's contract for one model id
ResolvesWell(m) ==
    \E sq \in {get_dimensions(m, S_square)} :
    \E la \in {get_dimensions(m, S_landscape)} :
    \E po \in {get_dimensions(m, S_portrait)} :
    \E ref \in {ModelOfId(m).supports_reference} :
       /\ sq[1] = sq[2]
       /\ la[1] > la[2]
       /\ po[2] > po[1]
       /\ la = <<po[2], po[1]>>
       /\ \A o \in OrientationValues :
             \E d \in {get_dimensions(m, o)} :
                /\ Lower(o) \notin {S_square, S_landscape} => d = po
                /\ d = DimensionTable(ref, OrientationRead(o))
       /\ \A m2 \in ModelIds :
             IF ModelOfId(m2).supports_reference = ref
             THEN /\ get_dimensions(m2, S_portrait) = po
                  /\ get_dimensions(m2, S_landscape) = la
             ELSE /\ get_dimensions(m2, S_portrait) # po
                  /\ get_dimensions(m2, S_landscape) # la

\* C17: for the model id of the job a handler has just submitted (every
\* job is in its turn, and every id of the registry is that of some job) a
\* square orientation gives
\* width = height; landscape gives width > height, portrait height > width,
\* and the landscape pair is the portrait pair transposed; the pair of a
\* reference-capable model differs from the pair of every other model and
\* is that of the other model of its family; an orientation value that is
\* neither square nor landscape gives the portrait pair; the resolver is
\* the table of the four pairs. The width and height of every submitted
\* job are the resolver's values for the model and the orientation of that
\* call, and the orientation is the interaction's.
C17_Dimensions ==
    \A id \in DOMAIN h :
       \A k \in 1..Len(h[id].calls) :
          \E c \in {h[id].calls[k]} :
          \E d \in {get_dimensions(c.call.model_id, c.call.orientation)} :
             /\ (h[id].pc = "generating" /\ k = Len(h[id].calls))
                   => ResolvesWell(c.call.model_id)
             /\ <<c.payload[2].width, c.payload[2].height>> = d
             /\ d = DimensionTable(ModelOfId(c.call.model_id).supports_reference,
                                   OrientationRead(c.call.orientation))
             /\ c.call.orientation = h[id].orientation

\* /kontext -n 2 -l a red fox submits a job of 1392 x 752, the landscape
\* pair of the reference-capable family
C17_Witness ==
    \E id \in DOMAIN h :
        /\ h[id].req.kind = "direct"
        /\ h[id].req.model_key = "kontext"
        /\ h[id].orientation = S_landscape
        /\ h[id].calls # <<>>
        /\ h[id].calls[1].payload[2].width = 1392
        /\ h[id].calls[1].payload[2].height = 752

(***************************************************************************)
(* C18. Two interactions that run together.                                *)
(***************************************************************************)
\* what an interaction's own request asks for
PlanOf(req) ==
    LET toks == TokensOf(req)
        hasMax == \E k \in 1..Len(toks) : IsMaxFlag(toks[k])
    IN IF req.kind = "photo" /\ Survivors(toks) = <<>>
       THEN [prompt |-> Strip(req.caption[1]), orientation |-> S_portrait,
             num_images |-> 1, model_key |-> "kontext"]
       ELSE [prompt |-> Join(Survivors(toks)),
             orientation |-> ExpectedOrientation(toks),
             num_images |-> ExpectedCount(toks),
             model_key |-> IF req.kind = "direct" THEN req.model_key
                           ELSE IF hasMax THEN "kontext-max" ELSE "kontext"]

\* the outcome of interaction id, as its own request and the results of
\* its own calls give it (nothing here reads another interaction)
OwnOutcome(id) ==
    LET x == h[id]
        ph == Photos(x)
    IN /\ \A k \in 1..Len(x.calls) :
             /\ x.calls[k].call.task_uuid = TaskUuid(id, k)
             /\ x.calls[k].payload[1].apiKey = ApiKey
       /\ Len(x.calls) - Len(ph) \in {0, 1}
       /\ (x.pc = "done" /\ ~Accepted(x)) => (x.calls = <<>> /\ ph = <<>>)
       /\ Accepted(x) =>
             \E plan \in {PlanOf(x.req)} :
                /\ x.prompt = plan.prompt
                /\ x.orientation = plan.orientation
                /\ x.num_images = plan.num_images
                /\ x.model_key = plan.model_key
                /\ Len(x.calls) <= plan.num_images
                /\ \A k \in 1..Len(x.calls) :
                      /\ x.calls[k].call.prompt = plan.prompt
                      /\ x.calls[k].call.model_id = MODELS[plan.model_key].id
                /\ \A j \in 1..Len(ph) :
                      /\ ph[j].caption[1].prompt = plan.prompt
                      /\ ph[j].caption[1].index =
                            IF plan.num_images > 1 THEN <<j, plan.num_images>> ELSE <<>>
                /\ x.pc = "done" =>
                      \/ /\ x.progress = "deleted"
                         /\ Len(ph) = plan.num_images
                         /\ Len(x.calls) = plan.num_images
                         /\ Truthy(x.image_base64)
                      \/ /\ x.progress = "failed"
                         /\ ~Truthy(x.image_base64)
                         /\ Len(ph) = Len(x.calls) - 1
                      \/ /\ x.progress = "ref_failed"
                         /\ ~Truthy(x.reference_image_base64)
                         /\ x.calls = <<>>

\* no answer to the call interaction id awaits makes it succeed unless it
\* holds a result with the call's own token; an answer whose result has
\* the token of a call of the other interaction fetches nothing and fails
OwnTokenOnly(id) ==
    h[id].pc = "generating" =>
       \E u \in {h[id].calls[Len(h[id].calls)].call.task_uuid} :
          \A j \in DOMAIN h \ {id} :
             \A m \in 1..Len(h[j].calls) :
                \E f \in {h[j].calls[m].call.task_uuid} :
                   /\ f # u
                   /\ \A n \in HandlerNets(u, f) :
                         \E r \in {generate_image(u, n)} :
                         \E es \in {Elements(n.post)} :
                            /\ Truthy(r.ret) =>
                                  \E k \in DOMAIN es : OwnResult(es[k], u)
                            /\ (\A k \in DOMAIN es :
                                   Get(es[k], "taskUUID") = <<f>>) =>
                                  (r.fetched = <<>> /\ r.ret = <<>>)

\* C18: with two interactions interleaved at every await, every step is a
\* step of one handler and leaves the record of the other interaction
\* untouched (so a failure notice, a rejection or a removal in one changes
\* nothing of the other); an unfinished interaction can always take its
\* next step, whatever the other one has come to; the number of calls, the
\* images delivered, their captions and the final progress message of each
\* interaction are those its own request and its own calls' results give;
\* the tokens of the two interactions' calls differ and no answer makes a
\* call succeed through a result carrying a token of the other's calls;
\* every job carries the one API credential (set at startup, as the
\* registry, and never written).
C18_Independence ==
    /\ [](\A id \in DOMAIN h :
             /\ OwnOutcome(id)
             /\ OwnTokenOnly(id)
             /\ h[id].pc # "done" => ENABLED HandlerStep(id))
    /\ [][/\ DOMAIN h' = DOMAIN h
          /\ \E id \in DOMAIN h :
                /\ HandlerStep(id)
                /\ \A j \in DOMAIN h \ {id} : h'[j] = h[j]]_vars

\* /kontext -n 2 fox ended with the failure notice after its first call
\* failed, and the photo captioned `-n 2 -max fox`, run together with it,
\* delivered its 2 images and removed its message
C18_Witness ==
    /\ Len(h) = 2
    /\ h[1].req.kind = "direct"
    /\ h[1].progress = "failed"
    /\ Len(h[1].calls) = 1
    /\ h[2].req.kind = "photo"
    /\ h[2].progress = "deleted"
    /\ Len(Photos(h[2])) = 2
    /\ h[2].calls[2].call.model_id = Id_kontext_max

(***************************************************************************)
(* C19. Every cause of failure gives the one failure value.                *)
(***************************************************************************)
\* the response holds a result for the call's token with a non-empty URL
HasOwnResult(body, u) ==
    \E k \in 1..Len(Elements(body)) : OwnResult(Elements(body)[k], u)

\* the causes of failure: the POST raises or is not answered 200, the
\* body cannot be read, the response reports an error, nothing matches the
\* token, the GET of the asset raises or is not answered 200
FailureCause ==
    \/ net.post.raises
    \/ net.post.status # 200
    \/ net.post.kind = "invalid"
    \/ ErrorAnywhere(net.post)
    \/ ~HasOwnResult(net.post, call.task_uuid)
    \/ net.get.raises
    \/ net.get.status # 200

\* C19: a call of generate_image that met any cause of failure (a non-200
\* status of the POST, an exception, an error reported by the response, no
\* result matching the token, a GET of the asset that raises or is not
\* answered 200) returns the one failure value None; it fetches at most
\* one asset and only one that a result with its own token names.
C19_FailureCollapse ==
    cpc = "returned" =>
        /\ FailureCause => out.ret = <<>>
        /\ Len(out.fetched) <= 1
        /\ out.fetched # <<>> => HasOwnResult(net.post, call.task_uuid)

(***************************************************************************)
(* C20. No call of generate_image with an empty prompt.                    *)
(***************************************************************************)
\* C20: in every reachable state of both handlers every call of
\* generate_image made so far carries a non-empty prompt, in its argument
\* and in the positivePrompt of its job; a direct request whose tokens
\* leave no prompt and a photo whose caption is missing or blank never
\* call it; a photo whose caption's tokens leave no prompt calls it with
\* the stripped caption.
C20_PromptNeverEmpty ==
    \A id \in DOMAIN h :
        LET x == h[id]
        IN /\ \A k \in 1..Len(x.calls) :
                 /\ x.calls[k].call.prompt # <<>>
                 /\ x.calls[k].payload[2].positivePrompt # <<>>
                 /\ x.calls[k].payload[2].positivePrompt = x.calls[k].call.prompt
           /\ x.calls # <<>> =>
                 /\ ~Rejected(x.req)
                 /\ x.req.kind = "photo" =>
                       /\ Truthy(x.req.caption)
                       /\ \E cap \in {Strip(x.req.caption[1])} :
                             /\ cap # <<>>
                             /\ Survivors(Split(cap)) = <<>> =>
                                   \A k \in 1..Len(x.calls) :
                                      x.calls[k].call.prompt = cap

\* a photo captioned `-S`: the parse leaves no prompt, the call is made
\* with the prompt `-S`
C20_Witness ==
    \E id \in DOMAIN h :
        /\ h[id].req.kind = "photo"
        /\ h[id].req.caption = <<T_S>>
        /\ Len(h[id].calls) = 1
        /\ h[id].calls[1].call.prompt = T_S
        /\ h[id].calls[1].payload[2].positivePrompt = T_S

(***************************************************************************)
(* C21. The reference image comes first.                                   *)
(***************************************************************************)
\* resolving the file raises, or its download raises or is not answered 200
ReferenceFails(tg) ==
    tg.get_file_raises \/ tg.get.raises \/ tg.get.status # 200

\* the reference images a download answered 200 gives
ResolvedReferences ==
    {<<B64Encode(tg.get.content)>> : tg \in {t \in TelegramFiles : ~ReferenceFails(t)}}

\* C21: in the editing path a call of generate_image is made only with a
\* reference image that is the base64 of bytes downloaded with status 200,
\* and every call and job of the interaction carries that same image;
\* upload_telegram_image returns None whenever resolving the file raises
\* or the download raises or is not answered 200; the step that ends the
\* upload without an image turns the progress message into the failure
\* notice and ends the interaction with no call made and nothing sent,
\* which then stays so; the reference image never changes once the upload
\* is over.
C21_ReferenceFirst ==
    /\ [](\A id \in DOMAIN h :
             h[id].req.kind = "photo" =>
                \E x \in {h[id]} :
                   /\ x.pc \in {"loop", "generating", "result"} =>
                         Truthy(x.reference_image_base64)
                   /\ x.calls # <<>> =>
                         /\ Truthy(x.reference_image_base64)
                         /\ x.reference_image_base64 \in ResolvedReferences
                         /\ \A k \in 1..Len(x.calls) :
                               /\ x.calls[k].call.reference_image_base64 =
                                     x.reference_image_base64
                               /\ HasReference(x.calls[k].payload)
                               /\ x.calls[k].payload[2].referenceImages =
                                     <<x.reference_image_base64[1]>>
                   /\ x.progress = "ref_failed" =>
                         /\ x.pc = "done"
                         /\ ~Truthy(x.reference_image_base64)
                         /\ x.calls = <<>>
                         /\ x.sent = <<>>)
    /\ [][\A id \in DOMAIN h :
             /\ (h[id].pc = "upload" /\ h'[id] # h[id]) =>
                   /\ \A tg \in TelegramFiles :
                         ReferenceFails(tg) => upload_telegram_image(tg) = <<>>
                   /\ \E tg \in TelegramFiles :
                         h'[id].reference_image_base64 = upload_telegram_image(tg)
                   /\ IF Truthy(h'[id].reference_image_base64)
                      THEN /\ h'[id].reference_image_base64 \in ResolvedReferences
                           /\ h'[id].pc = "loop"
                      ELSE /\ h'[id].progress = "ref_failed"
                           /\ h'[id].pc = "done"
                   /\ h'[id].calls = <<>>
                   /\ h'[id].sent = <<>>
             /\ h[id].pc # "upload" =>
                   h'[id].reference_image_base64 = h[id].reference_image_base64
             /\ h[id].progress = "ref_failed" => h'[id] = h[id]]_vars

\* a photo captioned `-n 3 fox` whose reference image could not be
\* fetched: the failure notice, none of the 3 calls, nothing sent
C21_Witness ==
    \E id \in DOMAIN h :
        /\ h[id].req.kind = "photo"
        /\ h[id].req.caption = <<Join(<<T_n, T_3, T_fox>>)>>
        /\ h[id].num_images = 3
        /\ h[id].progress = "ref_failed"
        /\ h[id].pc = "done"
        /\ h[id].reference_image_base64 = <<>>
        /\ h[id].calls = <<>>
        /\ h[id].sent = <<>>

=============================================================================
